---- MODULE Spec2Model ----
(***************************************************************************)
(* The filter expression language of scripts/notion/utils (tokenize,       *)
(* FilterParser, validateNestingDepth, astToNotionFilter, parseFilter) and *)
(* its use by the fetch command (buildQueryFilter, combineFilters) as a    *)
(* state machine.  Strings are TLA+ strings, indexed 0-based as in the     *)
(* JavaScript source through CharAt / Slice.                               *)
(***************************************************************************)
EXTENDS Integers, Sequences, FiniteSets, TLC

VARIABLES
    filterString,    \* argument of parseFilter / tokenize (a JS value)
    propertySchema,  \* argument of parseFilter: insertion-ordered name -> type pairs
    pc,              \* the stage that runs next, or "done" / "error"
    str,             \* tokenize: the trimmed input
    i,               \* tokenize: the cursor
    tokens,          \* tokenize: the token list built so far
    ast,             \* the AST returned by FilterParser.parse
    result,          \* the value returned by the call
    error,           \* the message of the Error thrown, "" when none
    ran,             \* the stages entered so far, in order
    calls,           \* the calls that have returned or thrown, in order
    query,           \* fetch: the --query argument (a JS value)
    parsedFilter,    \* fetch: the object parsedFilter refers to
    queryFilter,     \* fetch: the value of buildQueryFilter
    combinedFilter   \* fetch: the value of combineFilters

vars == <<filterString, propertySchema, pc, str, i, tokens, ast, result, error, ran, calls,
          query, parsedFilter, queryFilter, combinedFilter>>

fetchVars == <<query, parsedFilter, queryFilter, combinedFilter>>

----------------------------------------------------------------------------
(* JavaScript values *)

JsNull == [js |-> "null"]
JsUndefined == [js |-> "undefined"]
JsString(s) == [js |-> "string", v |-> s]
JsNumber(n) == [js |-> "number", v |-> n]
JsBoolean(b) == [js |-> "boolean", v |-> b]
JsEmptyObject == [js |-> "object", v |-> "{}"]

NoAst == [type |-> "none"]

\* the locals of the fetch handler, not yet declared
FetchIdle ==
    /\ query = JsUndefined
    /\ parsedFilter = JsUndefined
    /\ queryFilter = JsUndefined
    /\ combinedFilter = JsUndefined

----------------------------------------------------------------------------
(* Strings *)

\* const x = value; Body(x): the value is computed once
With(value, Body(_)) == CHOOSE out \in {Body(x) : x \in {value}} : TRUE

CharAt(s, k) == SubSeq(s, k + 1, k + 1)

Slice(s, k) == SubSeq(s, k + 1, Len(s))

StartsWith(s, p) == Len(s) >= Len(p) /\ SubSeq(s, 1, Len(p)) = p

Contains(s, sub) == \E k \in 0..(Len(s) - Len(sub)) : StartsWith(Slice(s, k), sub)

\* /\s/ and the characters String.prototype.trim strips
Whitespace == {" ", "\t"}

IsSpace(c) == c \in Whitespace

\* \w of a JavaScript regular expression
WordChars ==
    {"a", "b", "c", "d", "e", "f", "g", "h", "i", "j", "k", "l", "m",
     "n", "o", "p", "q", "r", "s", "t", "u", "v", "w", "x", "y", "z",
     "A", "B", "C", "D", "E", "F", "G", "H", "I", "J", "K", "L", "M",
     "N", "O", "P", "Q", "R", "S", "T", "U", "V", "W", "X", "Y", "Z",
     "0", "1", "2", "3", "4", "5", "6", "7", "8", "9", "_"}

RECURSIVE TrimStart(_)
TrimStart(s) ==
    IF s # "" /\ IsSpace(CharAt(s, 0)) THEN TrimStart(Slice(s, 1)) ELSE s

RECURSIVE TrimEnd(_)
TrimEnd(s) ==
    IF s # "" /\ IsSpace(CharAt(s, Len(s) - 1))
    THEN TrimEnd(SubSeq(s, 1, Len(s) - 1))
    ELSE s

Trim(s) == TrimEnd(TrimStart(s))

----------------------------------------------------------------------------
(* tokenize *)

\* an order that converts before it validates the depth
StageAfterConvertFirst(stage) ==
    CASE stage = "parseFilter" -> "tokenize"
      [] stage = "tokenize" -> "parse"
      [] stage = "parse" -> "convert"
      [] stage = "convert" -> "validate"
      [] stage = "validate" -> "done"

\* the order of the statements of parseFilter
StageAfter(stage) ==
    CASE stage = "parseFilter" -> "tokenize"
      [] stage = "tokenize" -> "parse"
      [] stage = "parse" -> "validate"
      [] stage = "validate" -> "convert"
      [] stage = "convert" -> "done"

\* the regular expression /^(k1|k2)\b/ applied to `remaining`: the keyword
\* matched, "" when none.  \b after the keyword's last letter holds at the
\* end of the text and before a character that is not a word character.
MatchKeyword(remaining, keywords) ==
    LET hits == {k \in keywords :
                    /\ StartsWith(remaining, k)
                    /\ (Len(remaining) = Len(k) \/ CharAt(remaining, Len(k)) \notin WordChars)}
    IN  IF hits = {} THEN "" ELSE CHOOSE k \in hits : TRUE

andMatch(remaining) == MatchKeyword(remaining, {"AND", "and"})

orMatch(remaining) == MatchKeyword(remaining, {"OR", "or"})

ScanInit(startIndex) ==
    [i |-> startIndex, parts |-> <<>>, currentPart |-> "",
     inQuotes |-> FALSE, quoteChar |-> "", colonCount |-> 0, left |-> FALSE]

\* a colon branch in which every colon separates
ColonSeparatorEvery(st) ==
    [st EXCEPT !.parts = Append(@, st.currentPart),
               !.currentPart = "",
               !.colonCount = @ + 1,
               !.i = @ + 1]

\* the branch of an unquoted colon
ColonSeparator(st) ==
    IF st.colonCount >= 2
    THEN [st EXCEPT !.currentPart = @ \o ":", !.i = @ + 1]
    ELSE [st EXCEPT !.parts = Append(@, st.currentPart),
                    !.currentPart = "",
                    !.colonCount = @ + 1,
                    !.i = @ + 1]

\* one iteration of the while loop of parseFilterExpression: the loop
\* variables after it, `left` set where it breaks out of the loop
ScanStep(s, startIndex, st) ==
    LET char == CharAt(s, st.i)
        unescapedQuote ==
            /\ char \in {"\"", "'"}
            /\ (st.i = startIndex \/ CharAt(s, st.i - 1) # "\\")
    IN  IF unescapedQuote /\ ~st.inQuotes
        THEN [st EXCEPT !.inQuotes = TRUE, !.quoteChar = char, !.i = @ + 1]
        ELSE IF unescapedQuote /\ char = st.quoteChar
        THEN [st EXCEPT !.inQuotes = FALSE, !.quoteChar = "", !.i = @ + 1]
        ELSE IF st.inQuotes
        THEN [st EXCEPT !.currentPart = @ \o char, !.i = @ + 1]
        ELSE IF char = ":"
        THEN ColonSeparator(st)
        ELSE IF IsSpace(char) \/ char = "(" \/ char = ")"
        THEN [st EXCEPT !.left = TRUE]
        ELSE IF MatchKeyword(Slice(s, st.i), {"AND", "and", "OR", "or"}) # ""
        THEN [st EXCEPT !.left = TRUE]
        ELSE [st EXCEPT !.currentPart = @ \o char, !.i = @ + 1]

\* the while loop of parseFilterExpression, from the state `st` to its exit
RECURSIVE ScanLoop(_, _, _)
ScanLoop(s, startIndex, st) ==
    IF st.i >= Len(s) \/ st.left THEN st
    ELSE With(ScanStep(s, startIndex, st), LAMBDA next : ScanLoop(s, startIndex, next))

NoMatch == [matched |-> FALSE]

\* a triple scan that keeps the value untrimmed
parseFilterExpressionUntrimmed(s, startIndex) ==
    LET st == ScanLoop(s, startIndex, ScanInit(startIndex))
        parts == IF st.currentPart # "" THEN Append(st.parts, st.currentPart)
                 ELSE st.parts
    IN  IF Len(parts) # 3 THEN NoMatch
        ELSE IF parts[1] = "" \/ parts[2] = "" THEN NoMatch
        ELSE [matched |-> TRUE,
              filter |-> [property |-> Trim(parts[1]),
                          operator |-> Trim(parts[2]),
                          value |-> parts[3]],
              endIndex |-> st.i]

\* a triple scan that finds no triple where a quote is left open
parseFilterExpressionClosedOnly(s, startIndex) ==
    LET st == ScanLoop(s, startIndex, ScanInit(startIndex))
        parts == IF st.currentPart # "" THEN Append(st.parts, st.currentPart)
                 ELSE st.parts
    IN  IF st.inQuotes THEN NoMatch
        ELSE IF Len(parts) # 3 THEN NoMatch
        ELSE IF parts[1] = "" \/ parts[2] = "" THEN NoMatch
        ELSE [matched |-> TRUE,
              filter |-> [property |-> Trim(parts[1]),
                          operator |-> Trim(parts[2]),
                          value |-> Trim(parts[3])],
              endIndex |-> st.i]

parseFilterExpression(s, startIndex) ==
    With(ScanLoop(s, startIndex, ScanInit(startIndex)), LAMBDA st :
        With(IF st.currentPart # "" THEN Append(st.parts, st.currentPart) ELSE st.parts,
             LAMBDA parts :
                 IF Len(parts) # 3 THEN NoMatch
                 ELSE IF parts[1] = "" \/ parts[2] = "" THEN NoMatch
                 ELSE [matched |-> TRUE,
                       filter |-> [property |-> Trim(parts[1]),
                                   operator |-> Trim(parts[2]),
                                   value |-> Trim(parts[3])],
                       endIndex |-> st.i]))

Token(type, value) == [type |-> type, value |-> value]

EofToken == Token("EOF", "null")

\* a message that counts the offset from 1
UnexpectedCharacterOneBased(s, k) ==
    "Unexpected character at position " \o ToString(k + 1) \o ": \"" \o CharAt(s, k) \o "\""

UnexpectedCharacter(s, k) ==
    "Unexpected character at position " \o ToString(k) \o ": \"" \o CharAt(s, k) \o "\""

\* a whitespace branch that steps the cursor back
TokenizeWhitespaceBack ==
    /\ pc = "tokenize" /\ i < Len(str)
    /\ IsSpace(CharAt(str, i))
    /\ i' = i - 1
    /\ UNCHANGED <<fetchVars, calls, filterString, propertySchema, pc, str, tokens, ast, result, error, ran>>

\* one iteration of the while loop of tokenize, by the branch it takes
TokenizeWhitespace ==
    /\ pc = "tokenize" /\ i < Len(str)
    /\ IsSpace(CharAt(str, i))
    /\ i' = i + 1
    /\ UNCHANGED <<fetchVars, calls, filterString, propertySchema, pc, str, tokens, ast, result, error, ran>>

TokenizeLParen ==
    /\ pc = "tokenize" /\ i < Len(str)
    /\ CharAt(str, i) = "("
    /\ tokens' = Append(tokens, Token("LPAREN", "("))
    /\ i' = i + 1
    /\ UNCHANGED <<fetchVars, calls, filterString, propertySchema, pc, str, ast, result, error, ran>>

TokenizeRParen ==
    /\ pc = "tokenize" /\ i < Len(str)
    /\ CharAt(str, i) = ")"
    /\ tokens' = Append(tokens, Token("RPAREN", ")"))
    /\ i' = i + 1
    /\ UNCHANGED <<fetchVars, calls, filterString, propertySchema, pc, str, ast, result, error, ran>>

AtTriple ==
    /\ pc = "tokenize" /\ i < Len(str)
    /\ ~IsSpace(CharAt(str, i))
    /\ CharAt(str, i) \notin {"(", ")"}

TokenizeAnd ==
    /\ AtTriple
    /\ andMatch(Slice(str, i)) # ""
    /\ tokens' = Append(tokens, Token("AND", "AND"))
    /\ i' = i + Len(andMatch(Slice(str, i)))
    /\ UNCHANGED <<fetchVars, calls, filterString, propertySchema, pc, str, ast, result, error, ran>>

TokenizeOr ==
    /\ AtTriple
    /\ andMatch(Slice(str, i)) = ""
    /\ orMatch(Slice(str, i)) # ""
    /\ tokens' = Append(tokens, Token("OR", "OR"))
    /\ i' = i + Len(orMatch(Slice(str, i)))
    /\ UNCHANGED <<fetchVars, calls, filterString, propertySchema, pc, str, ast, result, error, ran>>

TokenizeFilter ==
    /\ AtTriple
    /\ andMatch(Slice(str, i)) = ""
    /\ orMatch(Slice(str, i)) = ""
    /\ LET filterMatch == parseFilterExpression(str, i)
       IN  /\ filterMatch.matched
           /\ tokens' = Append(tokens, Token("FILTER", filterMatch.filter))
           /\ i' = filterMatch.endIndex
    /\ UNCHANGED <<fetchVars, calls, filterString, propertySchema, pc, str, ast, result, error, ran>>

TokenizeThrow ==
    /\ AtTriple
    /\ andMatch(Slice(str, i)) = ""
    /\ orMatch(Slice(str, i)) = ""
    /\ ~parseFilterExpression(str, i).matched
    /\ error' = UnexpectedCharacter(str, i)
    /\ pc' = "error"
    /\ UNCHANGED <<fetchVars, calls, filterString, propertySchema, str, i, tokens, ast, result, ran>>

\* the loop has ended: push EOF and return the tokens
TokenizeEof ==
    /\ pc = "tokenize" /\ i >= Len(str)
    /\ tokens' = Append(tokens, EofToken)
    /\ pc' = StageAfter("tokenize")
    /\ UNCHANGED <<fetchVars, calls, filterString, propertySchema, str, i, ast, result, error, ran>>

tokenize ==
    \/ TokenizeWhitespace
    \/ TokenizeLParen
    \/ TokenizeRParen
    \/ TokenizeAnd
    \/ TokenizeOr
    \/ TokenizeFilter
    \/ TokenizeThrow
    \/ TokenizeEof

----------------------------------------------------------------------------
(* FilterParser *)

\* this.tokens[this.position]
currentToken(toks, position) == toks[position + 1]

JsonString(s) == "\"" \o s \o "\""

\* JSON.stringify(token)
JsonToken(token) ==
    "{\"type\":" \o JsonString(token.type) \o ",\"value\":" \o
    (IF token.type = "FILTER"
     THEN "{\"property\":" \o JsonString(token.value.property) \o
          ",\"operator\":" \o JsonString(token.value.operator) \o
          ",\"value\":" \o JsonString(token.value.value) \o "}"
     ELSE IF token.type = "EOF" THEN "null"
     ELSE JsonString(token.value)) \o "}"

\* what a parsing method hands back: the node it returns and the position
\* it leaves the cursor at, or the message of the Error it throws
Returned(node, position) == [err |-> "", node |-> node, position |-> position]

Thrown(message, position) == [err |-> message, node |-> NoAst, position |-> position]

FilterNode(triple) ==
    [type |-> "filter", property |-> triple.property,
     operator |-> triple.operator, value |-> triple.value]

\* a combine step that always builds a new pair
CombineNested(type, left, right) == [type |-> type, filters |-> <<left, right>>]

\* a combine step that merges a right operand of the same type as well
CombineBothSides(type, left, right) ==
    LET before == IF left.type = type THEN left.filters ELSE <<left>>
        after == IF right.type = type THEN right.filters ELSE <<right>>
    IN  [type |-> type, filters |-> before \o after]

\* the "Combine into AND / OR node" step of parseAndExpression and
\* parseOrExpression: push onto a node of the same type, else a new pair
Combine(type, left, right) ==
    IF left.type = type
    THEN [left EXCEPT !.filters = Append(@, right)]
    ELSE [type |-> type, filters |-> <<left, right>>]

RECURSIVE parseAndExpression(_, _)
RECURSIVE andLoop(_, _, _)
RECURSIVE parseOrExpression(_, _)
RECURSIVE orLoop(_, _, _)
RECURSIVE parsePrimary(_, _)

\* a primary that returns a group as a node of its own
parsePrimaryGroupNode(toks, position) ==
    LET token == currentToken(toks, position)
    IN  IF token.type = "FILTER"
        THEN Returned(FilterNode(token.value), position + 1)
        ELSE IF token.type = "LPAREN"
        THEN LET expr == parseAndExpression(toks, position + 1)
             IN  IF expr.err # "" THEN expr
                 ELSE IF currentToken(toks, expr.position).type # "RPAREN"
                 THEN Thrown("Expected closing parenthesis", expr.position)
                 ELSE Returned([type |-> "and", filters |-> <<expr.node>>],
                               expr.position + 1)
        ELSE Thrown("Unexpected token: " \o JsonToken(token), position)

\* a primary that takes a group as closed wherever its expression ends
parsePrimaryUnclosed(toks, position) ==
    LET token == currentToken(toks, position)
    IN  IF token.type = "FILTER"
        THEN Returned(FilterNode(token.value), position + 1)
        ELSE IF token.type = "LPAREN"
        THEN LET expr == parseAndExpression(toks, position + 1)
             IN  IF expr.err # "" THEN expr
                 ELSE IF currentToken(toks, expr.position).type # "RPAREN"
                 THEN Returned(expr.node, expr.position)
                 ELSE Returned(expr.node, expr.position + 1)
        ELSE Thrown("Unexpected token: " \o JsonToken(token), position)

parsePrimary(toks, position) ==
    LET token == currentToken(toks, position)
    IN  IF token.type = "FILTER"
        THEN Returned(FilterNode(token.value), position + 1)
        ELSE IF token.type = "LPAREN"
        THEN With(parseAndExpression(toks, position + 1), LAMBDA expr :
                 IF expr.err # "" THEN expr
                 ELSE IF currentToken(toks, expr.position).type # "RPAREN"
                 THEN Thrown("Expected closing parenthesis", expr.position)
                 ELSE Returned(expr.node, expr.position + 1))
        ELSE Thrown("Unexpected token: " \o JsonToken(token), position)

\* the while loop of parseOrExpression with `left` parsed up to `position`
orLoop(toks, left, position) ==
    IF currentToken(toks, position).type # "OR"
    THEN Returned(left, position)
    ELSE With(parsePrimary(toks, position + 1), LAMBDA right :
             IF right.err # "" THEN right
             ELSE With(Combine("or", left, right.node), LAMBDA combined :
                      orLoop(toks, combined, right.position)))

parseOrExpression(toks, position) ==
    With(parsePrimary(toks, position), LAMBDA left :
        IF left.err # "" THEN left
        ELSE orLoop(toks, left.node, left.position))

\* an AND loop that parses only a primary to the right of AND
andLoopPrimaryOperand(toks, left, position) ==
    IF currentToken(toks, position).type # "AND"
    THEN Returned(left, position)
    ELSE LET right == parsePrimary(toks, position + 1)
         IN  IF right.err # "" THEN right
             ELSE andLoop(toks, Combine("and", left, right.node), right.position)

\* the while loop of parseAndExpression with `left` parsed up to `position`
andLoop(toks, left, position) ==
    IF currentToken(toks, position).type # "AND"
    THEN Returned(left, position)
    ELSE With(parseOrExpression(toks, position + 1), LAMBDA right :
             IF right.err # "" THEN right
             ELSE With(Combine("and", left, right.node), LAMBDA combined :
                      andLoop(toks, combined, right.position)))

parseAndExpression(toks, position) ==
    With(parseOrExpression(toks, position), LAMBDA left :
        IF left.err # "" THEN left
        ELSE andLoop(toks, left.node, left.position))

\* a parse that returns whatever parseAndExpression returned
parseAnyRest(toks) == parseAndExpression(toks, 0)

\* new FilterParser(tokens).parse()
parse(toks) ==
    With(parseAndExpression(toks, 0), LAMBDA expr :
        IF expr.err # "" THEN expr
        ELSE IF currentToken(toks, expr.position).type # "EOF"
        THEN Thrown("Unexpected token after expression: "
                        \o JsonToken(currentToken(toks, expr.position)),
                    expr.position)
        ELSE expr)

----------------------------------------------------------------------------
(* validateNestingDepth *)

IsConnective(node) == node.type \in {"and", "or"}

RECURSIVE validateNestingDepth(_, _)

\* a validator that rejects a connective at depth 2 already
validateNestingDepthAtTwo(node, currentDepth) ==
    IF ~IsConnective(node) THEN ""
    ELSE IF currentDepth >= 2
    THEN "Filter nesting exceeds maximum depth of 2 levels"
    ELSE LET thrown == {validateNestingDepth(node.filters[k], currentDepth + 1) :
                            k \in 1..Len(node.filters)} \ {""}
         IN  IF thrown = {} THEN "" ELSE CHOOSE m \in thrown : TRUE

\* a validator that descends into the first child only
validateNestingDepthFirstChild(node, currentDepth) ==
    IF ~IsConnective(node) THEN ""
    ELSE IF currentDepth > 2
    THEN "Filter nesting exceeds maximum depth of 2 levels"
    ELSE validateNestingDepth(node.filters[1], currentDepth + 1)

\* the message of the Error thrown, "" when the call returns
validateNestingDepth(node, currentDepth) ==
    IF ~IsConnective(node) THEN ""
    ELSE IF currentDepth > 2
    THEN "Filter nesting exceeds maximum depth of 2 levels"
    ELSE LET thrown == {validateNestingDepth(node.filters[k], currentDepth + 1) :
                            k \in 1..Len(node.filters)} \ {""}
         IN  IF thrown = {} THEN "" ELSE CHOOSE m \in thrown : TRUE

----------------------------------------------------------------------------
(* astToNotionFilter *)

PROPERTY_TYPE_TO_API_KEY ==
    [title |-> "title", rich_text |-> "rich_text", number |-> "number",
     select |-> "select", multi_select |-> "multi_select", date |-> "date",
     people |-> "people", files |-> "files", checkbox |-> "checkbox",
     url |-> "url", email |-> "email", phone_number |-> "phone_number",
     formula |-> "formula", relation |-> "relation", rollup |-> "rollup",
     created_time |-> "created_time", created_by |-> "created_by",
     last_edited_time |-> "last_edited_time",
     last_edited_by |-> "last_edited_by", status |-> "status"]

TextOperators ==
    <<"equals", "does_not_equal", "contains", "does_not_contain",
      "starts_with", "ends_with", "is_empty", "is_not_empty">>

DateOperators ==
    <<"equals", "before", "after", "on_or_before", "on_or_after",
      "is_empty", "is_not_empty", "past_week", "past_month", "past_year",
      "next_week", "next_month", "next_year", "this_week">>

VALID_OPERATORS ==
    [title |-> TextOperators,
     rich_text |-> TextOperators,
     number |-> <<"equals", "does_not_equal", "greater_than",
                  "greater_than_or_equal_to", "less_than",
                  "less_than_or_equal_to", "is_empty", "is_not_empty">>,
     checkbox |-> <<"equals", "does_not_equal">>,
     select |-> <<"equals", "does_not_equal", "is_empty", "is_not_empty">>,
     multi_select |-> <<"contains", "does_not_contain", "is_empty", "is_not_empty">>,
     status |-> <<"equals", "does_not_equal", "is_empty", "is_not_empty">>,
     date |-> DateOperators,
     people |-> <<"contains", "does_not_contain", "is_empty", "is_not_empty">>,
     files |-> <<"is_empty", "is_not_empty">>,
     relation |-> <<"contains", "does_not_contain", "is_empty", "is_not_empty">>,
     created_time |-> DateOperators,
     last_edited_time |-> DateOperators]

EMPTY_VALUE_OPERATORS ==
    <<"is_empty", "is_not_empty", "past_week", "past_month", "past_year",
      "next_week", "next_month", "next_year", "this_week">>

ID_OPERATORS == <<"equals", "does_not_equal", "greater_than">>

\* Array.prototype.includes
Includes(seq, x) == \E k \in 1..Len(seq) : seq[k] = x

\* Array.prototype.join
RECURSIVE Join(_, _)
Join(seq, sep) ==
    IF Len(seq) = 0 THEN ""
    ELSE IF Len(seq) = 1 THEN seq[1]
    ELSE seq[1] \o sep \o Join(Tail(seq), sep)

\* the methods an object literal inherits from Object.prototype
ObjectPrototypeKeys ==
    {"constructor", "toString", "toLocaleString", "valueOf", "hasOwnProperty",
     "isPrototypeOf", "propertyIsEnumerable"}

\* Object.keys(propertySchema)
SchemaKeys(schema) == [k \in 1..Len(schema) |-> schema[k].name]

\* propertySchema[property], the schema an object literal: an own key, a
\* method or the prototype inherited from Object.prototype, or undefined
SchemaGet(schema, property) ==
    IF \E k \in 1..Len(schema) : schema[k].name = property
    THEN JsString((CHOOSE e \in {schema[k] : k \in 1..Len(schema)} : e.name = property).type)
    ELSE IF property \in ObjectPrototypeKeys
    THEN [js |-> "function",
          v |-> "function " \o (IF property = "constructor" THEN "Object" ELSE property)
                \o "() { [native code] }"]
    ELSE IF property = "__proto__" THEN [js |-> "object", v |-> "[object Object]"]
    ELSE JsUndefined

Digits == "0123456789"

IsDigit(c) == \E k \in 0..9 : CharAt(Digits, k) = c

DigitValue(c) == CHOOSE k \in 0..9 : CharAt(Digits, k) = c

RECURSIVE DecimalValue(_)
DecimalValue(s) ==
    IF s = "" THEN 0
    ELSE 10 * DecimalValue(SubSeq(s, 1, Len(s) - 1)) + DigitValue(CharAt(s, Len(s) - 1))

\* NaN is no integer: a number value of its own shape
NaN == [js |-> "number", nan |-> TRUE]

\* Number(value) for the literals made of an optional sign and decimal
\* digits; every other non-blank text of the model's alphabet is NaN
Number(value) ==
    LET t == Trim(value)
        signed == t # "" /\ CharAt(t, 0) \in {"-", "+"}
        digits == IF signed THEN Slice(t, 1) ELSE t
    IN  IF t = "" THEN JsNumber(0)
        ELSE IF digits # "" /\ \A k \in 0..(Len(digits) - 1) : IsDigit(CharAt(digits, k))
        THEN JsNumber(IF signed /\ CharAt(t, 0) = "-"
                      THEN 0 - DecimalValue(digits) ELSE DecimalValue(digits))
        ELSE NaN

UpperLetters == "ABCDEFGHIJKLMNOPQRSTUVWXYZ"

LowerLetters == "abcdefghijklmnopqrstuvwxyz"

IsAlphanumeric(c) ==
    \/ IsDigit(c)
    \/ \E k \in 0..25 : c = CharAt(UpperLetters, k) \/ c = CharAt(LowerLetters, k)

ToLowerCase(c) ==
    IF \E k \in 0..25 : c = CharAt(UpperLetters, k)
    THEN CharAt(LowerLetters, CHOOSE k \in 0..25 : c = CharAt(UpperLetters, k))
    ELSE c

\* String(raw).replace(/[^a-z0-9]/gi, '').toLowerCase()
RECURSIVE Cleaned(_)
Cleaned(raw) ==
    IF raw = "" THEN ""
    ELSE (IF IsAlphanumeric(CharAt(raw, 0)) THEN ToLowerCase(CharAt(raw, 0)) ELSE "")
         \o Cleaned(Slice(raw, 1))

\* normalizeNotionId(raw) || raw
normalizeNotionId(raw) ==
    LET cleaned == Cleaned(raw)
    IN  IF raw = "" THEN raw
        ELSE IF Len(cleaned) # 32 THEN raw
        ELSE SubSeq(cleaned, 1, 8) \o "-" \o SubSeq(cleaned, 9, 12) \o "-" \o
             SubSeq(cleaned, 13, 16) \o "-" \o SubSeq(cleaned, 17, 20) \o "-" \o
             SubSeq(cleaned, 21, 32)

\* what a conversion hands back: the value it returns, or the message of
\* the Error it throws
Value(v) == [err |-> "", value |-> v]

Raise(message) == [err |-> message, value |-> JsNull]

\* a conversion that looks at the property type before the operator
convertFilterValueTypeFirst(propertyType, operator, value) ==
    IF propertyType = "number"
    THEN IF Number(value) = NaN
         THEN Raise("Invalid number value for property: \"" \o value \o "\"")
         ELSE Value(Number(value))
    ELSE IF propertyType = "checkbox"
    THEN IF value = "true" THEN Value(JsBoolean(TRUE))
         ELSE IF value = "false" THEN Value(JsBoolean(FALSE))
         ELSE Raise("Checkbox value must be \"true\" or \"false\", got: \"" \o value \o "\"")
    ELSE IF operator = "is_empty" \/ operator = "is_not_empty" THEN Value(JsBoolean(TRUE))
    ELSE IF Includes(EMPTY_VALUE_OPERATORS, operator) THEN Value(JsEmptyObject)
    ELSE IF propertyType \in {"people", "relation"}
    THEN Value(JsString(normalizeNotionId(value)))
    ELSE Value(JsString(value))

\* a conversion that hands the literal of a checkbox on as it is
convertFilterValueCheckboxString(propertyType, operator, value) ==
    IF operator = "is_empty" \/ operator = "is_not_empty" THEN Value(JsBoolean(TRUE))
    ELSE IF Includes(EMPTY_VALUE_OPERATORS, operator) THEN Value(JsEmptyObject)
    ELSE IF propertyType = "number"
    THEN IF Number(value) = NaN
         THEN Raise("Invalid number value for property: \"" \o value \o "\"")
         ELSE Value(Number(value))
    ELSE IF propertyType \in {"people", "relation"}
    THEN Value(JsString(normalizeNotionId(value)))
    ELSE Value(JsString(value))

convertFilterValue(propertyType, operator, value) ==
    IF operator = "is_empty" \/ operator = "is_not_empty" THEN Value(JsBoolean(TRUE))
    ELSE IF Includes(EMPTY_VALUE_OPERATORS, operator) THEN Value(JsEmptyObject)
    ELSE IF propertyType = "number"
    THEN IF Number(value) = NaN
         THEN Raise("Invalid number value for property: \"" \o value \o "\"")
         ELSE Value(Number(value))
    ELSE IF propertyType = "checkbox"
    THEN IF value = "true" THEN Value(JsBoolean(TRUE))
         ELSE IF value = "false" THEN Value(JsBoolean(FALSE))
         ELSE Raise("Checkbox value must be \"true\" or \"false\", got: \"" \o value \o "\"")
    ELSE IF propertyType \in {"people", "relation"}
    THEN Value(JsString(normalizeNotionId(value)))
    ELSE Value(JsString(value))

convertTimestampFilter(property, operator, value) ==
    IF ~Includes(VALID_OPERATORS[property], operator)
    THEN Raise("Operator \"" \o operator \o "\" is not valid for timestamp property \""
               \o property \o "\". Valid operators: "
               \o Join(VALID_OPERATORS[property], ", "))
    ELSE LET convertedValue ==
                 IF operator = "is_empty" \/ operator = "is_not_empty" THEN JsBoolean(TRUE)
                 ELSE IF Includes(EMPTY_VALUE_OPERATORS, operator) THEN JsEmptyObject
                 ELSE JsString(value)
         IN  Value(("timestamp" :> property) @@ (property :> (operator :> convertedValue)))

convertIdFilter(operator, value) ==
    IF ~Includes(ID_OPERATORS, operator)
    THEN Raise("Operator \"" \o operator \o "\" is not valid for property \"id\". Valid operators: "
               \o Join(ID_OPERATORS, ", "))
    ELSE Value(("property" :> "id") @@
               ("id" :> (operator :> JsString(normalizeNotionId(value)))))

\* convertSingleFilter from the schema lookup on
convertPropertyFilter(filterNode, schema) ==
    LET property == filterNode.property
        operator == filterNode.operator
        value == filterNode.value
        propertyType == SchemaGet(schema, property)
        known == /\ propertyType.js = "string"
                 /\ propertyType.v \in DOMAIN VALID_OPERATORS
        typeText == IF propertyType = JsUndefined THEN "undefined" ELSE propertyType.v
    IN  IF propertyType = JsUndefined \/ propertyType = JsString("")
        THEN Raise("Property \"" \o property
                   \o "\" not found in database schema. Available properties: "
                   \o Join(SchemaKeys(schema), ", "))
        ELSE IF ~known \/ ~Includes(VALID_OPERATORS[propertyType.v], operator)
        THEN Raise("Operator \"" \o operator \o "\" is not valid for property \""
                   \o property \o "\" (type: " \o typeText \o "). Valid operators: "
                   \o (IF known THEN Join(VALID_OPERATORS[propertyType.v], ", ") ELSE "none"))
        ELSE IF propertyType.v \notin DOMAIN PROPERTY_TYPE_TO_API_KEY
        THEN Raise("Unsupported property type: " \o propertyType.v)
        ELSE LET apiKey == PROPERTY_TYPE_TO_API_KEY[propertyType.v]
                 convertedValue == convertFilterValue(propertyType.v, operator, value)
             IN  IF convertedValue.err # "" THEN convertedValue
                 ELSE Value(("property" :> property) @@
                            (apiKey :> (operator :> convertedValue.value)))

\* a dispatch that asks the schema before the timestamp names
convertSingleFilterSchemaFirst(filterNode, schema) ==
    LET property == filterNode.property
    IN  IF property = "id"
        THEN convertIdFilter(filterNode.operator, filterNode.value)
        ELSE IF SchemaGet(schema, property) # JsUndefined
        THEN convertPropertyFilter(filterNode, schema)
        ELSE IF property = "created_time" \/ property = "last_edited_time"
        THEN convertTimestampFilter(property, filterNode.operator, filterNode.value)
        ELSE convertPropertyFilter(filterNode, schema)

\* a dispatch without the branch of the page id
convertSingleFilterIdInSchema(filterNode, schema) ==
    LET property == filterNode.property
    IN  IF property = "created_time" \/ property = "last_edited_time"
        THEN convertTimestampFilter(property, filterNode.operator, filterNode.value)
        ELSE convertPropertyFilter(filterNode, schema)

convertSingleFilter(filterNode, schema) ==
    LET property == filterNode.property
        operator == filterNode.operator
        value == filterNode.value
    IN  IF property = "created_time" \/ property = "last_edited_time"
        THEN convertTimestampFilter(property, operator, value)
        ELSE IF property = "id"
        THEN convertIdFilter(operator, value)
        ELSE convertPropertyFilter(filterNode, schema)

\* a compilation that lists the compiled children last to first
RECURSIVE astToNotionFilterReversed(_, _)
astToNotionFilterReversed(node, schema) ==
    IF node.type = "filter" THEN convertSingleFilter(node, schema)
    ELSE IF node.type = "and" \/ node.type = "or"
    THEN LET n == Len(node.filters)
             children == [k \in 1..n |->
                             astToNotionFilterReversed(node.filters[n + 1 - k], schema)]
             failed == {k \in 1..n : children[k].err # ""}
         IN  IF failed # {}
             THEN children[CHOOSE k \in failed : \A j \in failed : k >= j]
             ELSE Value(node.type :> [k \in 1..n |-> children[k].value])
    ELSE Raise("Unknown AST node type: " \o node.type)

\* ast.filters.map(...): the compiled children, or the first Error thrown
RECURSIVE astToNotionFilter(_, _)
astToNotionFilter(node, schema) ==
    IF node.type = "filter" THEN convertSingleFilter(node, schema)
    ELSE IF node.type = "and" \/ node.type = "or"
    THEN LET children == [k \in 1..Len(node.filters) |->
                             astToNotionFilter(node.filters[k], schema)]
             failed == {k \in 1..Len(children) : children[k].err # ""}
         IN  IF failed # {}
             THEN children[CHOOSE k \in failed : \A j \in failed : k <= j]
             ELSE Value(node.type :> [k \in 1..Len(children) |-> children[k].value])
    ELSE Raise("Unknown AST node type: " \o node.type)

----------------------------------------------------------------------------
(* parseFilter *)

\* an emptiness test that leaves out the trim
IsEmptyFilterStringUntrimmed(v) ==
    \/ v.js \in {"null", "undefined"}
    \/ v.js = "string" /\ v.v = ""

\* !filterString || !filterString.trim()
IsEmptyFilterString(v) ==
    \/ v.js \in {"null", "undefined"}
    \/ v.js = "string" /\ v.v = ""
    \/ v.js = "string" /\ Trim(v.v) = ""

ParseFilterEmpty ==
    /\ pc = "parseFilter"
    /\ IsEmptyFilterString(filterString)
    /\ result' = JsNull
    /\ pc' = "done"
    /\ UNCHANGED <<fetchVars, calls, filterString, propertySchema, str, i, tokens, ast, error, ran>>

\* tokenize as a function: the while loop from the cursor k on, with the
\* tokens pushed so far, to the token list returned or the Error thrown
RECURSIVE tokenizeFrom(_, _, _)
tokenizeFrom(s, k, toks) ==
    IF k >= Len(s) THEN Value(Append(toks, EofToken))
    ELSE IF IsSpace(CharAt(s, k)) THEN tokenizeFrom(s, k + 1, toks)
    ELSE IF CharAt(s, k) = "("
    THEN tokenizeFrom(s, k + 1, Append(toks, Token("LPAREN", "(")))
    ELSE IF CharAt(s, k) = ")"
    THEN tokenizeFrom(s, k + 1, Append(toks, Token("RPAREN", ")")))
    ELSE IF andMatch(Slice(s, k)) # ""
    THEN tokenizeFrom(s, k + Len(andMatch(Slice(s, k))), Append(toks, Token("AND", "AND")))
    ELSE IF orMatch(Slice(s, k)) # ""
    THEN tokenizeFrom(s, k + Len(orMatch(Slice(s, k))), Append(toks, Token("OR", "OR")))
    ELSE LET filterMatch == parseFilterExpression(s, k)
         IN  IF filterMatch.matched
             THEN tokenizeFrom(s, filterMatch.endIndex,
                               Append(toks, Token("FILTER", filterMatch.filter)))
             ELSE Raise(UnexpectedCharacter(s, k))

\* parseFilter as a function of its two arguments: the value returned or
\* the Error thrown by a call made on its own
parseFilter(v, schema) ==
    IF IsEmptyFilterString(v) THEN Value(JsNull)
    ELSE LET tokenized == tokenizeFrom(Trim(v.v), 0, <<>>)
         IN  IF tokenized.err # "" THEN Raise(tokenized.err)
             ELSE LET parsed == parse(tokenized.value)
                  IN  IF parsed.err # "" THEN Raise(parsed.err)
                      ELSE IF validateNestingDepth(parsed.node, 0) # ""
                      THEN Raise(validateNestingDepth(parsed.node, 0))
                      ELSE astToNotionFilter(parsed.node, schema)

\* an entry into tokenize that goes on with the token list at hand
ParseFilterTokenizeKeepTokens ==
    /\ pc = "parseFilter"
    /\ ~IsEmptyFilterString(filterString)
    /\ str' = Trim(filterString.v)
    /\ i' = 0
    /\ ran' = Append(ran, "tokenize")
    /\ pc' = StageAfter("parseFilter")
    /\ UNCHANGED <<fetchVars, calls, filterString, propertySchema, tokens, ast, result, error>>

\* const tokens = tokenize(filterString): the call is entered
ParseFilterTokenize ==
    /\ pc = "parseFilter"
    /\ ~IsEmptyFilterString(filterString)
    /\ str' = Trim(filterString.v)
    /\ i' = 0
    /\ tokens' = <<>>
    /\ ran' = Append(ran, "tokenize")
    /\ pc' = StageAfter("parseFilter")
    /\ UNCHANGED <<fetchVars, calls, filterString, propertySchema, ast, result, error>>

\* const ast = parser.parse()
Parse ==
    /\ pc = "parse"
    /\ ran' = Append(ran, "parse")
    /\ LET parsed == parse(tokens)
       IN  IF parsed.err # ""
           THEN error' = parsed.err /\ pc' = "error" /\ UNCHANGED ast
           ELSE ast' = parsed.node /\ pc' = StageAfter("parse") /\ UNCHANGED error
    /\ UNCHANGED <<fetchVars, calls, filterString, propertySchema, str, i, tokens, result>>

\* validateNestingDepth(ast)
Validate ==
    /\ pc = "validate"
    /\ ran' = Append(ran, "validateNestingDepth")
    /\ LET thrown == validateNestingDepth(ast, 0)
       IN  IF thrown # ""
           THEN error' = thrown /\ pc' = "error"
           ELSE pc' = StageAfter("validate") /\ UNCHANGED error
    /\ UNCHANGED <<fetchVars, calls, filterString, propertySchema, str, i, tokens, ast, result>>

\* const notionFilter = astToNotionFilter(ast, propertySchema)
Convert ==
    /\ pc = "convert"
    /\ ran' = Append(ran, "astToNotionFilter")
    /\ LET converted == astToNotionFilter(ast, propertySchema)
       IN  IF converted.err # ""
           THEN error' = converted.err /\ pc' = "error" /\ UNCHANGED result
           ELSE result' = converted.value /\ pc' = StageAfter("convert") /\ UNCHANGED error
    /\ UNCHANGED <<fetchVars, calls, filterString, propertySchema, str, i, tokens, ast>>

----------------------------------------------------------------------------
(* Inputs *)

MaxNest == 3

MaxChain == 3

MaxTokens == 6

MaxTreeDepth == 4

MaxQuoted == 2

MaxValueChunks == 3

MaxConvertDepth == 2

MaxCalls == 2

Symbols == {"(", ")", "AND", "OR", "F"}

LeafLetters == "ABCDEFGHIJKLMNOP"

\* the k-th leaf of an expression, as a triple and as its text
LeafTriple(k) ==
    [property |-> CharAt(LeafLetters, k - 1), operator |-> "equals", value |-> ToString(k)]

Leaf(k) == CharAt(LeafLetters, k - 1) \o ":equals:" \o ToString(k)

\* the text of a sequence of symbols, its k-th F written as the k-th leaf
RECURSIVE RenderFrom(_, _, _)
RenderFrom(sk, k, leafNo) ==
    IF k > Len(sk) THEN ""
    ELSE LET sym == sk[k]
             text == IF sym = "F" THEN Leaf(leafNo) ELSE sym
             sep == IF k = 1 \/ sk[k - 1] = "(" \/ sym = ")" THEN "" ELSE " "
         IN  sep \o text \o RenderFrom(sk, k + 1, IF sym = "F" THEN leafNo + 1 ELSE leafNo)

Render(sk) == RenderFrom(sk, 1, 1)

\* the token list of a sequence of symbols, EOF appended
RECURSIVE TokensFrom(_, _, _)
TokensFrom(sk, k, leafNo) ==
    IF k > Len(sk) THEN <<EofToken>>
    ELSE LET sym == sk[k]
             token == CASE sym = "F" -> Token("FILTER", LeafTriple(leafNo))
                        [] sym = "(" -> Token("LPAREN", "(")
                        [] sym = ")" -> Token("RPAREN", ")")
                        [] OTHER -> Token(sym, sym)
         IN  <<token>> \o TokensFrom(sk, k + 1, IF sym = "F" THEN leafNo + 1 ELSE leafNo)

TokensOf(sk) == TokensFrom(sk, 1, 1)

Connectives == {"AND", "OR"}

\* expressions nested to the left and to the right, k parentheses deep
RECURSIVE Nest(_)
Nest(k) ==
    IF k = 0 THEN {<<"F">>, <<"F", "AND", "F">>, <<"F", "OR", "F">>}
    ELSE LET inner == Nest(k - 1)
         IN  inner
             \cup {<<"(">> \o e \o <<")", op, "F">> : e \in inner, op \in Connectives}
             \cup {<<"F", op, "(">> \o e \o <<")">> : e \in inner, op \in Connectives}

Operands == {<<"F">>, <<"(", "F", "AND", "F", ")">>, <<"(", "F", "OR", "F", ")">>}

\* n operands joined by the one connective op
RECURSIVE ChainsOf(_, _)
ChainsOf(op, n) ==
    IF n = 1 THEN Operands
    ELSE {c \o <<op>> \o o : c \in ChainsOf(op, n - 1), o \in Operands}

Chains == UNION {ChainsOf(op, n) : op \in Connectives, n \in 2..MaxChain}

\* the nesting examples of filter-syntax-design.md, "Syntax Rules / 4. Nesting"
DocValid1 == "(A:equals:1 OR B:equals:2) AND (C:equals:3 OR D:equals:4)"

DocValid2 == "((A:equals:1 OR B:equals:2) AND C:equals:3) OR D:equals:4"

DocInvalid == "(((A:equals:1 OR B:equals:2) OR C:equals:3) OR D:equals:4)"

Malformed ==
    {"A:equals:1)", "(A:equals:1", "A:equals:1 AND", "A:equals:1 B:equals:2",
     "A:equals:1 AND B:equals:2)", "A:equals:1 AND B:equals",
     "(A:equals:1 OR B:equals:2", "A:equals:1 AND B:equals:2 AND C:equals",
     "((((A:equals:1 OR B:equals:2) AND C:equals:3) OR D:equals:4) AND E:equals:5",
     "(((A:equals:1 OR B:equals:2) AND C:equals:3) OR D:equals:4) AND E:equals:5 AND F:equals"}

EmptyInputs ==
    {JsNull, JsUndefined, JsString(""), JsString(" "), JsString("   "), JsString("\t ")}

FilterStrings ==
    EmptyInputs
    \cup {JsString(Render(e)) : e \in Nest(MaxNest) \cup Chains}
    \cup {JsString(DocValid1), JsString(DocValid2), JsString(DocInvalid)}
    \cup {JsString(m) : m \in Malformed}
    \cup {JsString("  A:equals:1   AND   B:equals:2  ")}

SchemaEntry(name, type) == [name |-> name, type |-> type]

\* every leaf letter a title property
SchemaTitles ==
    [k \in 1..Len(LeafLetters) |-> SchemaEntry(CharAt(LeafLetters, k - 1), "title")]

\* the same without B: the second leaf names an unknown property
SchemaWithoutB == <<SchemaTitles[1]>> \o SubSeq(SchemaTitles, 3, Len(SchemaTitles))

\* the same with A a files property: `equals` is no operator of the first leaf
SchemaFilesA == <<SchemaEntry("A", "files")>> \o Tail(SchemaTitles)

Schemas == {SchemaTitles, SchemaWithoutB, SchemaFilesA}

----------------------------------------------------------------------------
(* Specifications *)

\* parseFilter(filterString, propertySchema)
Init ==
    /\ filterString \in FilterStrings
    /\ propertySchema \in Schemas
    /\ pc = "parseFilter"
    /\ str = ""
    /\ i = 0
    /\ tokens = <<>>
    /\ ast = NoAst
    /\ result = JsUndefined
    /\ error = ""
    /\ ran = <<>>
    /\ calls = <<>>
    /\ FetchIdle

Next ==
    \/ ParseFilterEmpty
    \/ ParseFilterTokenize
    \/ tokenize
    \/ Parse
    \/ Validate
    \/ Convert

Spec == Init /\ [][Next]_vars

MaxLiveNest == 2

LiveFilterStrings ==
    EmptyInputs
    \cup {JsString(Render(e)) : e \in Nest(MaxLiveNest)}
    \cup {JsString(DocValid1), JsString(DocValid2), JsString(DocInvalid)}
    \cup {JsString(m) : m \in Malformed}
    \cup {JsString("  A:equals:1   AND   B:equals:2  ")}

\* parseFilter(filterString, propertySchema), the synchronous call running
\* on until it returns or throws
InitLive ==
    /\ filterString \in LiveFilterStrings
    /\ propertySchema \in {SchemaTitles, SchemaWithoutB}
    /\ pc = "parseFilter"
    /\ str = ""
    /\ i = 0
    /\ tokens = <<>>
    /\ ast = NoAst
    /\ result = JsUndefined
    /\ error = ""
    /\ ran = <<>>
    /\ calls = <<>>
    /\ FetchIdle

SpecLive == InitLive /\ [][Next]_vars /\ WF_vars(Next)

\* every token list of at most max tokens before its EOF
TokenLists(max) ==
    {TokensOf(sk) : sk \in UNION {[1..n -> Symbols] : n \in 0..max}}

\* new FilterParser(tokens).parse()
InitParser ==
    /\ tokens \in TokenLists(MaxTokens)
    /\ pc = "parse"
    /\ filterString = JsUndefined
    /\ propertySchema = <<>>
    /\ str = ""
    /\ i = 0
    /\ ast = NoAst
    /\ result = JsUndefined
    /\ error = ""
    /\ ran = <<>>
    /\ calls = <<>>
    /\ FetchIdle

NextParser == Parse

SpecParser == InitParser /\ [][NextParser]_vars

TreeLeaf == FilterNode(LeafTriple(1))

\* hand-built trees of at most k connective layers; a connective node
\* holds one or two children
RECURSIVE Trees(_)
Trees(k) ==
    IF k = 0 THEN {TreeLeaf}
    ELSE LET below == Trees(k - 1)
         IN  below
             \cup {[type |-> t, filters |-> <<a>>] : t \in {"and", "or"}, a \in below}
             \cup {[type |-> t, filters |-> <<a, TreeLeaf>>] : t \in {"and", "or"}, a \in below}
             \cup {[type |-> t, filters |-> <<TreeLeaf, a>>] : t \in {"and", "or"}, a \in below}

\* validateNestingDepth(ast)
InitValidate ==
    /\ ast \in Trees(MaxTreeDepth)
    /\ pc = "validate"
    /\ filterString = JsUndefined
    /\ propertySchema = <<>>
    /\ str = ""
    /\ i = 0
    /\ tokens = <<>>
    /\ result = JsUndefined
    /\ error = ""
    /\ ran = <<>>
    /\ calls = <<>>
    /\ FetchIdle

NextValidate == Validate

SpecValidate == InitValidate /\ [][NextValidate]_vars

\* property names and unquoted values that hold the letters of a keyword
KeywordProperties == {"Name", "Order", "Brand", "Vendor", "Category", "android"}

KeywordValues == {"color", "vendor", "x", "1", "band", "candy", "order", "android"}

\* every capitalisation of the two keywords
AndSpellings == {"AND", "ANd", "AnD", "And", "aND", "aNd", "anD", "and"}

OrSpellings == {"OR", "Or", "oR", "or"}

QuoteChars == {"\"", "'"}

\* what a span quoted by q may hold
QuotedChunks(q) == {"x", " ", ":", "(", ")", "AND", "or", "\\"} \cup (QuoteChars \ {q})

\* the texts of at most n chunks
RECURSIVE QuotedContents(_, _)
QuotedContents(q, n) ==
    IF n = 0 THEN {""}
    ELSE LET shorter == QuotedContents(q, n - 1)
         IN  shorter \cup {x \o c : x \in shorter, c \in QuotedChunks(q)}

QuotedInput(q, x) == "Name:contains:" \o q \o x \o q

\* the inputs of the tokenize tests of tests/filter.test.js
TestInputs ==
    {"Name:contains:test",
     "Name:contains:test AND Status:equals:Done",
     "Status:equals:Done OR Status:equals:Todo",
     "(Name:contains:test OR Name:contains:draft) AND Status:equals:Done",
     "Date:after:2025-01-01T00:00:00Z",
     "Name:contains:test)"}

\* what the value of a triple with further colons is made of
ValueChunks == {":", "2025", "-", "T", "Z", "x"}

\* the values of at most n chunks
RECURSIVE ColonValues(_)
ColonValues(n) ==
    IF n = 0 THEN {""}
    ELSE LET shorter == ColonValues(n - 1)
         IN  shorter \cup {v \o c : v \in shorter, c \in ValueChunks}

ColonInput(v) == "Date:after:" \o v

\* texts that are no complete triple: fewer than two separators, or an
\* empty property, operator or value
IncompleteTriples == {"P", "P:o", ":o:v", "P::v", "P:o:", "P:o:\"\"", "P:o:''"}

\* what stands before and after them
IncompleteBefore == {"", "  ", "(", "A:equals:1 AND "}

IncompleteAfter == {"", " AND B:equals:2", ")"}

IncompleteInputs ==
    {b \o t \o a : b \in IncompleteBefore, t \in IncompleteTriples, a \in IncompleteAfter}

\* what stands before a triple with a quote left open, and the number of
\* tokens it makes
UnclosedBefore ==
    {[text |-> "", tokens |-> 0], [text |-> "(", tokens |-> 1],
     [text |-> "A:equals:1 AND ", tokens |-> 2]}

\* the value up to the quote
UnclosedValueStart == {"", "it", "a:"}

\* what follows a quote q that nothing closes
UnclosedTail(q) ==
    {"", "s AND Status:equals:Done", " x) OR (y:z", "\\" \o q \o "s or t"}
    \cup {c \o "s" : c \in QuoteChars \ {q}}

UnclosedValue(b, v, q, t) == b.text \o "Name:contains:" \o v \o q \o t

\* a quote left open in the property or in the operator
UnclosedName(q) ==
    {q \o "Name:contains:x", "Na" \o q \o "me:contains:x", "Name:con" \o q \o "tains:x"}

UnclosedNameTail == {"", " AND B:equals:2"}

UnclosedInputs ==
    UNION {{UnclosedValue(b, v, q, t) : b \in UnclosedBefore, v \in UnclosedValueStart,
                                          t \in UnclosedTail(q)}
           \cup {b.text \o n \o t : b \in UnclosedBefore, n \in UnclosedName(q),
                                      t \in UnclosedNameTail} : q \in QuoteChars}

\* the quoted spans are of at most max chunks
TokenizeInputs(max) ==
    TestInputs
    \cup {p \o ":equals:" \o v : p \in KeywordProperties, v \in KeywordValues}
    \cup {"Name:equals:a " \o kw \o " Status:equals:b" : kw \in AndSpellings \cup OrSpellings}
    \cup UNION {{QuotedInput(q, x) : x \in QuotedContents(q, max)} : q \in QuoteChars}
    \cup {ColonInput(v) : v \in ColonValues(MaxValueChunks)}
    \cup IncompleteInputs
    \cup UnclosedInputs

\* tokenize(filterString)
InitTokenize ==
    /\ filterString \in {JsString(t) : t \in TokenizeInputs(MaxQuoted)}
    /\ pc = "tokenize"
    /\ str = Trim(filterString.v)
    /\ i = 0
    /\ tokens = <<>>
    /\ propertySchema = <<>>
    /\ ast = NoAst
    /\ result = JsUndefined
    /\ error = ""
    /\ ran = <<"tokenize">>
    /\ calls = <<>>
    /\ FetchIdle

NextTokenize == tokenize

SpecTokenize == InitTokenize /\ [][NextTokenize]_vars

\* a database schema with one property of every type
ConvertSchema ==
    <<SchemaEntry("Name", "title"), SchemaEntry("Notes", "rich_text"),
      SchemaEntry("Priority", "number"), SchemaEntry("Done", "checkbox"),
      SchemaEntry("Stage", "select"), SchemaEntry("Tags", "multi_select"),
      SchemaEntry("State", "status"), SchemaEntry("Due", "date"),
      SchemaEntry("Owner", "people"), SchemaEntry("Attachments", "files"),
      SchemaEntry("Parent", "relation"), SchemaEntry("Link", "url"),
      SchemaEntry("Mail", "email"), SchemaEntry("Phone", "phone_number"),
      SchemaEntry("Total", "formula"), SchemaEntry("Sum", "rollup"),
      SchemaEntry("Created", "created_time"), SchemaEntry("Author", "created_by"),
      SchemaEntry("Edited", "last_edited_time"), SchemaEntry("Editor", "last_edited_by")>>

\* a schema that declares properties named as the pseudo-properties
ShadowSchema ==
    <<SchemaEntry("Name", "title"), SchemaEntry("created_time", "title"),
      SchemaEntry("last_edited_time", "number"), SchemaEntry("id", "checkbox")>>

ConvertSchemas == {ConvertSchema, ShadowSchema, <<>>}

PseudoProperties == {"created_time", "last_edited_time", "id"}

ConvertProperties ==
    {ConvertSchema[k].name : k \in 1..Len(ConvertSchema)}
    \cup PseudoProperties
    \cup {"Missing", "name", "toString", "constructor", "__proto__"}

\* every operator of the tables, and one of none
ConvertOperators ==
    UNION {{VALID_OPERATORS[t][k] : k \in 1..Len(VALID_OPERATORS[t])} : t \in DOMAIN VALID_OPERATORS}
    \cup {ID_OPERATORS[k] : k \in 1..Len(ID_OPERATORS)}
    \cup {"bogus"}

Hex32 == "0123456789abcdef0123456789abcdef"

Hex32Upper == "0123456789ABCDEF0123456789ABCDEF"

Hex32Dashed == "01234567-89ab-cdef-0123-456789abcdef"

Hex31 == "0123456789abcdef0123456789abcde"

Hex33 == "0123456789abcdef0123456789abcdef0"

Alphanumeric32 == "0123456789abcdefghijklmnopqrstuv"

ConvertValues ==
    {"true", "false", "True", "yes", "x", "", "1", "42", "-7", "abc",
     Hex32, Hex32Upper, Hex32Dashed, Hex31, Hex33, Alphanumeric32}

ConvertLeaves ==
    {[type |-> "filter", property |-> p, operator |-> o, value |-> v] :
        p \in ConvertProperties, o \in ConvertOperators, v \in ConvertValues}

\* the leaves of the compound trees: two that compile, one that throws
TreeLeaves ==
    {[type |-> "filter", property |-> "Name", operator |-> "contains", value |-> "x"],
     [type |-> "filter", property |-> "created_time", operator |-> "after", value |-> "x"],
     [type |-> "filter", property |-> "Missing", operator |-> "equals", value |-> "x"]}

\* and / or trees of at most k connective layers over these leaves; a
\* connective node holds no, one or two children
RECURSIVE ConvertTrees(_)
ConvertTrees(k) ==
    IF k = 0 THEN TreeLeaves
    ELSE LET below == ConvertTrees(k - 1)
             lists == {<<>>} \cup {<<a>> : a \in below}
                      \cup {<<a, b>> : a \in below, b \in TreeLeaves}
                      \cup {<<b, a>> : a \in below, b \in TreeLeaves}
         IN  below \cup {[type |-> t, filters |-> l] : t \in {"and", "or"}, l \in lists}

\* astToNotionFilter(ast, propertySchema)
InitConvert ==
    /\ ast \in ConvertLeaves \cup ConvertTrees(MaxConvertDepth)
    /\ propertySchema \in ConvertSchemas
    /\ pc = "convert"
    /\ filterString = JsUndefined
    /\ str = ""
    /\ i = 0
    /\ tokens = <<>>
    /\ result = JsUndefined
    /\ error = ""
    /\ ran = <<>>
    /\ calls = <<>>
    /\ FetchIdle

NextConvert == Convert

SpecConvert == InitConvert /\ [][NextConvert]_vars

\* the arguments of the calls of a sequence
CallFilters ==
    {JsString(""), JsString("A:equals:1"), JsString("B:equals"), JsString("(A:equals:1"),
     JsString("(A:equals:1 OR B:equals:2) AND C:equals:3")}

CallSchemas == {SchemaTitles, SchemaWithoutB}

\* what the call handed back: its value or the Error thrown
Completion == IF pc = "error" THEN Raise(error) ELSE Value(result)

\* a call has returned or thrown and parseFilter is called again: a new
\* activation, its locals not yet declared
Call ==
    /\ pc \in {"done", "error"}
    /\ Len(calls) < MaxCalls
    /\ calls' = Append(calls, [filterString |-> filterString,
                               propertySchema |-> propertySchema,
                               completion |-> Completion])
    /\ filterString' \in CallFilters
    /\ propertySchema' \in CallSchemas
    /\ pc' = "parseFilter"
    /\ ast' = NoAst
    /\ result' = JsUndefined
    /\ error' = ""
    /\ ran' = <<>>
    /\ UNCHANGED <<fetchVars, str, i, tokens>>

\* parseFilter called again and again
InitCalls ==
    /\ filterString \in CallFilters
    /\ propertySchema \in CallSchemas
    /\ pc = "parseFilter"
    /\ str = ""
    /\ i = 0
    /\ tokens = <<>>
    /\ ast = NoAst
    /\ result = JsUndefined
    /\ error = ""
    /\ ran = <<>>
    /\ calls = <<>>
    /\ FetchIdle

NextCalls ==
    \/ ParseFilterEmpty
    \/ ParseFilterTokenize
    \/ tokenize
    \/ Parse
    \/ Validate
    \/ Convert
    \/ Call

SpecCalls == InitCalls /\ [][NextCalls]_vars

----------------------------------------------------------------------------
(* The fetch command: getDatabaseSchema, buildQueryFilter, combineFilters *)

\* !v for the values a filter, a query or a filter string can be
Falsy(v) == v \in {JsNull, JsUndefined, JsString("")}

Max(S) == CHOOSE m \in S : \A n \in S : n <= m

RECURSIVE getFilterDepth(_)
getFilterDepth(filter) ==
    IF Falsy(filter) THEN 0
    ELSE IF "and" \in DOMAIN filter
    THEN 1 + Max({0} \cup {getFilterDepth(filter["and"][k]) : k \in 1..Len(filter["and"])})
    ELSE IF "or" \in DOMAIN filter
    THEN 1 + Max({0} \cup {getFilterDepth(filter["or"][k]) : k \in 1..Len(filter["or"])})
    ELSE 0

\* getDatabaseSchema: the name of the first title property, JsNull when none
titlePropName(schema) ==
    LET titles == {k \in 1..Len(schema) : schema[k].type = "title"}
    IN  IF titles = {} THEN JsNull
        ELSE JsString(schema[CHOOSE k \in titles : \A j \in titles : k <= j].name)

buildQueryFilter(titleProp, q) ==
    IF Falsy(q) THEN JsNull
    ELSE ("property" :> titleProp.v) @@ ("title" :> ("contains" :> q))

NestingLimitError ==
    "Combining --query with --filter exceeds Notion filter nesting limits. "
        \o "Include the title filter directly in --filter instead."

\* what a call hands back together with the object its second argument
\* refers to afterwards
Combined(completion, parsed) ==
    [err |-> completion.err, value |-> completion.value, parsedFilter |-> parsed]

\* a combination that pushes onto the list of the parsed filter itself
combineFiltersPush(qf, pf) ==
    IF ~Falsy(qf) /\ ~Falsy(pf)
    THEN IF "and" \in DOMAIN pf
         THEN LET pushed == "and" :> Append(pf["and"], qf)
              IN  Combined(Value(pushed), pushed)
         ELSE IF getFilterDepth(pf) >= 2 THEN Combined(Raise(NestingLimitError), pf)
         ELSE Combined(Value("and" :> <<pf, qf>>), pf)
    ELSE IF ~Falsy(qf) THEN Combined(Value(qf), pf)
    ELSE IF ~Falsy(pf) THEN Combined(Value(pf), pf)
    ELSE Combined(Value(JsNull), pf)

combineFilters(qf, pf) ==
    IF ~Falsy(qf) /\ ~Falsy(pf)
    THEN IF "and" \in DOMAIN pf
         THEN Combined(Value("and" :> (pf["and"] \o <<qf>>)), pf)
         ELSE IF getFilterDepth(pf) >= 2 THEN Combined(Raise(NestingLimitError), pf)
         ELSE Combined(Value("and" :> <<pf, qf>>), pf)
    ELSE IF ~Falsy(qf) THEN Combined(Value(qf), pf)
    ELSE IF ~Falsy(pf) THEN Combined(Value(pf), pf)
    ELSE Combined(Value(JsNull), pf)

\* const { propertySchema, titlePropName } = await getDatabaseSchema(...)
GetDatabaseSchema ==
    /\ pc = "getDatabaseSchema"
    /\ IF titlePropName(propertySchema) = JsNull
       THEN error' = "Database is missing a title property." /\ pc' = "error"
       ELSE pc' = "handler" /\ UNCHANGED error
    /\ UNCHANGED <<fetchVars, calls, filterString, propertySchema, str, i, tokens, ast,
                   result, ran>>

\* filterString ? parseFilter(filterString, propertySchema) : null; the call
\* is the steps of parseFilter
HandlerParseFilter ==
    /\ pc = "handler"
    /\ IF Falsy(filterString)
       THEN parsedFilter' = JsNull /\ pc' = "buildQueryFilter"
       ELSE pc' = "parseFilter" /\ UNCHANGED parsedFilter
    /\ UNCHANGED <<query, queryFilter, combinedFilter, calls, filterString, propertySchema,
                   str, i, tokens, ast, result, error, ran>>

\* const parsedFilter = <the value parseFilter returned>
HandlerParsed ==
    /\ pc = "done"
    /\ parsedFilter' = result
    /\ pc' = "buildQueryFilter"
    /\ UNCHANGED <<query, queryFilter, combinedFilter, calls, filterString, propertySchema,
                   str, i, tokens, ast, result, error, ran>>

BuildQueryFilter ==
    /\ pc = "buildQueryFilter"
    /\ queryFilter' = buildQueryFilter(titlePropName(propertySchema), query)
    /\ pc' = "combineFilters"
    /\ UNCHANGED <<query, parsedFilter, combinedFilter, calls, filterString, propertySchema,
                   str, i, tokens, ast, result, error, ran>>

CombineFilters ==
    /\ pc = "combineFilters"
    /\ LET combined == combineFilters(queryFilter, parsedFilter)
       IN  /\ parsedFilter' = combined.parsedFilter
           /\ IF combined.err # ""
              THEN error' = combined.err /\ pc' = "error" /\ UNCHANGED combinedFilter
              ELSE combinedFilter' = combined.value /\ pc' = "fetchPages" /\ UNCHANGED error
    /\ UNCHANGED <<query, queryFilter, calls, filterString, propertySchema,
                   str, i, tokens, ast, result, ran>>

\* fetchPages({ client, databaseId, filter: combinedFilter, limit }): the
\* database is queried with combinedFilter
FetchPages ==
    /\ pc = "fetchPages"
    /\ pc' = "fetched"
    /\ UNCHANGED <<fetchVars, calls, filterString, propertySchema, str, i, tokens, ast,
                   result, error, ran>>

MaxFilterDepth == 3

StatusLeaf == ("property" :> "Status") @@ ("status" :> ("equals" :> JsString("Done")))

PriorityLeaf == ("property" :> "Priority") @@ ("number" :> ("greater_than" :> JsNumber(5)))

\* the compiled filters of at most k connective layers
RECURSIVE NotionFilters(_)
NotionFilters(k) ==
    IF k = 0 THEN {StatusLeaf, PriorityLeaf}
    ELSE LET inner == NotionFilters(k - 1)
         IN  inner \cup {key :> list :
                          key \in {"and", "or"},
                          list \in {<<c>> : c \in inner}
                                   \cup {<<c, PriorityLeaf>> : c \in inner}
                                   \cup {<<StatusLeaf, c>> : c \in inner}}

QueryFilters ==
    {JsNull, buildQueryFilter(JsString("Name"), JsString("urgent"))}

\* combineFilters(queryFilter, parsedFilter) on its own
InitCombine ==
    /\ queryFilter \in QueryFilters
    /\ parsedFilter \in {JsNull} \cup NotionFilters(MaxFilterDepth)
    /\ pc = "combineFilters"
    /\ query = JsUndefined
    /\ combinedFilter = JsUndefined
    /\ filterString = JsUndefined
    /\ propertySchema = <<>>
    /\ str = ""
    /\ i = 0
    /\ tokens = <<>>
    /\ ast = NoAst
    /\ result = JsUndefined
    /\ error = ""
    /\ ran = <<>>
    /\ calls = <<>>

NextCombine == CombineFilters

SpecCombine == InitCombine /\ [][NextCombine]_vars

SchemaNoTitle == <<SchemaEntry("A", "number")>>

FetchFilters ==
    {JsUndefined, JsString(""), JsString("  "),
     JsString("A:equals:1"), JsString("B:equals"), JsString("(A:equals:1"),
     JsString("A:equals:1 AND B:equals:2"), JsString("A:equals:1 OR B:equals:2"),
     JsString("(A:equals:1 OR B:equals:2) AND C:equals:3"),
     JsString("(A:equals:1 AND B:equals:2) OR C:equals:3"),
     JsString(DocValid1), JsString(DocValid2), JsString(DocInvalid),
     JsString("((A:equals:1 AND B:equals:2) OR C:equals:3) AND D:equals:4"),
     JsString("(((A:equals:1 OR B:equals:2) AND C:equals:3) OR D:equals:4) AND E:equals:5")}

FetchQueries == {JsUndefined, JsString(""), JsString("urgent")}

FetchSchemas == {SchemaTitles, SchemaWithoutB, SchemaNoTitle}

\* the handler of the fetch command, from getDatabaseSchema to fetchPages
InitFetch ==
    /\ filterString \in FetchFilters
    /\ query \in FetchQueries
    /\ propertySchema \in FetchSchemas
    /\ pc = "getDatabaseSchema"
    /\ parsedFilter = JsUndefined
    /\ queryFilter = JsUndefined
    /\ combinedFilter = JsUndefined
    /\ str = ""
    /\ i = 0
    /\ tokens = <<>>
    /\ ast = NoAst
    /\ result = JsUndefined
    /\ error = ""
    /\ ran = <<>>
    /\ calls = <<>>

NextFetch ==
    \/ GetDatabaseSchema
    \/ HandlerParseFilter
    \/ ParseFilterEmpty
    \/ ParseFilterTokenize
    \/ tokenize
    \/ Parse
    \/ Validate
    \/ Convert
    \/ HandlerParsed
    \/ BuildQueryFilter
    \/ CombineFilters
    \/ FetchPages

SpecFetch == InitFetch /\ [][NextFetch]_vars

----------------------------------------------------------------------------
(* Properties *)

DepthError == "Filter nesting exceeds maximum depth of 2 levels"

TypesOf(toks) == [k \in 1..Len(toks) |-> toks[k].type]

\* a parenthesis-free expression: FILTER (AND|OR FILTER)* EOF
IsParenFree(toks) ==
    /\ Len(toks) >= 2 /\ Len(toks) % 2 = 0
    /\ toks[Len(toks)].type = "EOF"
    /\ \A k \in 1..(Len(toks) - 1) :
          IF k % 2 = 1 THEN toks[k].type = "FILTER" ELSE toks[k].type \in Connectives

\* the j-th leaf of a parenthesis-free expression
LeafOf(toks, j) == FilterNode(toks[2 * j - 1].value)

\* the operand made of the leaves s..e of a run of OR-joined leaves
RunNode(toks, s, e) ==
    IF s = e THEN LeafOf(toks, s)
    ELSE [type |-> "or", filters |-> [k \in 1..(e - s + 1) |-> LeafOf(toks, s + k - 1)]]

\* the tree of a parenthesis-free expression when OR binds tighter than
\* AND: the maximal OR-runs, in order, under one `and`
PrecedenceTree(toks) ==
    LET n == Len(toks) \div 2
        ands == {j \in 1..(n - 1) : toks[2 * j].type = "AND"}
        starts == {1} \cup {j + 1 : j \in ands}
        endOf(st) == IF \E j \in ands : j >= st
                     THEN CHOOSE j \in ands : j >= st /\ \A h \in ands : h >= st => j <= h
                     ELSE n
        start(m) == CHOOSE st \in starts : Cardinality({t \in starts : t < st}) = m - 1
    IN  IF ands = {} THEN RunNode(toks, 1, n)
        ELSE [type |-> "and",
              filters |-> [m \in 1..Cardinality(starts) |->
                              RunNode(toks, start(m), endOf(start(m)))]]

\* C1: OR binds tighter than AND. FilterParser.parse of a parenthesis-free
\* token list returns the tree whose `and` operands are the maximal runs of
\* OR-joined leaves, leaves in source order; `A OR B AND C` gives
\* and[or[A, B], C].
C1_OrBindsTighter ==
    (pc # "parse" /\ IsParenFree(tokens))
        => /\ pc = "validate"
           /\ ast = PrecedenceTree(tokens)
           /\ (TypesOf(tokens) = <<"FILTER", "OR", "FILTER", "AND", "FILTER", "EOF">>
                 => ast = [type |-> "and",
                           filters |-> <<[type |-> "or",
                                          filters |-> <<FilterNode(LeafTriple(1)),
                                                        FilterNode(LeafTriple(2))>>],
                                         FilterNode(LeafTriple(3))>>])

C1_Witness ==
    /\ pc = "validate"
    /\ TypesOf(tokens) = <<"FILTER", "OR", "FILTER", "AND", "FILTER", "EOF">>
    /\ ast.type = "and"
    /\ ast.filters[1].type = "or"
    /\ ast.filters[2] = FilterNode(LeafTriple(3))

\* the parenthesis depth in front of token p
ParenDepth(toks, p) ==
    Cardinality({k \in 1..(p - 1) : toks[k].type = "LPAREN"})
    - Cardinality({k \in 1..(p - 1) : toks[k].type = "RPAREN"})

\* the positions of the connectives outside every parenthesis
TopLevel(toks) ==
    {p \in 1..Len(toks) : toks[p].type \in Connectives /\ ParenDepth(toks, p) = 0}

\* a chain of operands joined only by `op` at the top level
IsChainOf(toks, op) ==
    /\ TopLevel(toks) # {}
    /\ \A p \in TopLevel(toks) : toks[p].type = op

\* the boundaries of the operands of a chain: 0, the connectives, the EOF
Cut(toks, m) ==
    IF m = 0 THEN 0
    ELSE IF m = Cardinality(TopLevel(toks)) + 1 THEN Len(toks)
    ELSE CHOOSE p \in TopLevel(toks) :
             Cardinality({q \in TopLevel(toks) : q < p}) = m - 1

\* the tree of the m-th operand of a chain, parsed on its own
OperandNode(toks, m) ==
    parse(SubSeq(toks, Cut(toks, m - 1) + 1, Cut(toks, m) - 1) \o <<EofToken>>).node

OperandNodes(toks) ==
    [m \in 1..(Cardinality(TopLevel(toks)) + 1) |-> OperandNode(toks, m)]

NodeType(op) == IF op = "AND" THEN "and" ELSE "or"

\* the stages after parsing have the tree of a complete token list
Parsed == ast # NoAst

\* C2 as stated: a chain of n operands joined only by AND (only by OR)
\* parses to one node of n elements, the operands in order, and compiles
\* to one array of n elements.
C2_Original ==
    \A op \in Connectives :
        (Parsed /\ IsChainOf(tokens, op))
            => /\ ast = [type |-> NodeType(op), filters |-> OperandNodes(tokens)]
               /\ (pc = "done" =>
                      Len(result[NodeType(op)]) = Cardinality(TopLevel(tokens)) + 1)

\* C2, amended: a chain of n operands joined only by AND (only by OR)
\* parses to one node holding the operands in source order, n elements,
\* unless the first operand is a parenthesised group of the same connective,
\* whose children then take its place in the list; parseFilter compiles the
\* node to one array of as many elements as the node has.
C2_Flattening ==
    \A op \in Connectives :
        (Parsed /\ IsChainOf(tokens, op))
            => LET operands == OperandNodes(tokens)
                   first == operands[1]
                   expected == IF first.type = NodeType(op)
                               THEN first.filters \o Tail(operands)
                               ELSE operands
               IN  /\ ast = [type |-> NodeType(op), filters |-> expected]
                   /\ (pc = "done" =>
                          /\ DOMAIN result = {NodeType(op)}
                          /\ Len(result[NodeType(op)]) = Len(expected))

C2_Witness ==
    /\ pc = "done"
    /\ filterString = JsString("A:equals:1 AND B:equals:2 AND C:equals:3")
    /\ DOMAIN result = {"and"}
    /\ Len(result["and"]) = 3
    /\ ast.filters = <<FilterNode(LeafTriple(1)), FilterNode(LeafTriple(2)),
                        FilterNode(LeafTriple(3))>>

\* the number of nested connective layers of a tree
RECURSIVE Layers(_)
Layers(node) ==
    IF ~IsConnective(node) THEN 0
    ELSE LET below == {Layers(node.filters[k]) : k \in 1..Len(node.filters)}
         IN  1 + (CHOOSE m \in below : \A h \in below : h <= m)

\* validateNestingDepth has run on the tree
Validated == Parsed /\ pc \in {"convert", "done", "error"}

\* C3 as stated: parseFilter throws the depth error for every filter
\* string whose tree has 3 nested connective layers, and not for 2.
C3_Original ==
    Validated => (error = DepthError <=> Layers(ast) >= 3)

\* C3, amended: parseFilter throws the depth error exactly for the filter
\* strings whose tree has 4 or more nested connective layers (a connective
\* with three connective ancestors); 3 layers, as in
\* ((A OR B) AND C) OR D, and fewer do not throw it.
C3_DepthRejection ==
    Validated => (error = DepthError <=> Layers(ast) >= 4)

C3_Witness ==
    /\ pc = "error"
    /\ error = DepthError
    /\ Layers(ast) = 4
    /\ filterString =
         JsString("(((A:equals:1 OR B:equals:2) AND C:equals:3) OR D:equals:4) AND E:equals:5")

\* the depths (number of connective ancestors) of the connective nodes
RECURSIVE ConnectiveDepths(_, _)
ConnectiveDepths(node, depth) ==
    IF ~IsConnective(node) THEN {}
    ELSE {depth} \cup UNION {ConnectiveDepths(node.filters[k], depth + 1) :
                                 k \in 1..Len(node.filters)}

\* C4: validateNestingDepth(ast) throws the depth error if and only if
\* the tree holds an and/or node with at least three and/or ancestors;
\* connectives at depths 0, 1, 2 pass, and leaves never raise it.
C4_ValidateIff ==
    pc # "validate"
        => /\ (pc = "error" /\ error = DepthError)
                <=> (\E d \in ConnectiveDepths(ast, 0) : d >= 3)
           /\ (pc # "error" => pc = "convert" /\ error = "")

C4_Witness ==
    /\ pc = "convert"
    /\ error = ""
    /\ ConnectiveDepths(ast, 0) = {0, 1, 2}
    /\ ast.filters[1].filters[1].filters[1] = TreeLeaf

\* C5: the nesting examples of the design document. (((A OR B) OR C) OR D)
\* fails with the depth error; (A OR B) AND (C OR D) and
\* ((A OR B) AND C) OR D are accepted.
C5_DocExamples ==
    (Validated /\ propertySchema = SchemaTitles)
        => /\ (filterString = JsString(DocInvalid) => error = DepthError)
           /\ (filterString \in {JsString(DocValid1), JsString(DocValid2)} => error = "")

StageOrder == <<"tokenize", "parse", "validateNestingDepth", "astToNotionFilter">>

SyntaxErrors == {"Unexpected character", "Unexpected token", "Expected closing parenthesis"}

IsSyntaxError(message) == \E e \in SyntaxErrors : StartsWith(message, e)

\* a FILTER token names a property the schema does not hold
NamesUnknownProperty(toks, schema) ==
    \E k \in 1..Len(toks) :
        /\ toks[k].type = "FILTER"
        /\ SchemaGet(schema, toks[k].value.property) = JsUndefined

\* C6: parseFilter runs tokenize, parse, validateNestingDepth,
\* astToNotionFilter in this order and stops at the first that throws: a
\* grammar error wins over an unknown property, the depth error wins over
\* an unknown property or an invalid operator, and a failing call returns
\* no filter.
C6_FirstErrorWins ==
    /\ ran = SubSeq(StageOrder, 1, Len(ran))
    /\ (pc = "error" =>
          /\ error # ""
          /\ result = JsUndefined
          /\ (ran = <<"tokenize">> => StartsWith(error, "Unexpected character"))
          /\ (Len(ran) = 2 => error = parse(tokens).err /\ IsSyntaxError(error))
          /\ (Len(ran) = 3 => error = DepthError)
          /\ (Len(ran) = 4 => error = astToNotionFilter(ast, propertySchema).err))
    /\ (pc = "done" => error = "")
    /\ (Len(ran) >= 2 /\ parse(tokens).err # "" => pc = "error" /\ Len(ran) = 2)
    /\ (Len(ran) >= 3 /\ validateNestingDepth(ast, 0) # "" => pc = "error" /\ Len(ran) = 3)

C6_Witness ==
    /\ pc = "error"
    /\ error = DepthError
    /\ NamesUnknownProperty(tokens, propertySchema)
    /\ astToNotionFilter(ast, propertySchema).err # ""
    /\ ran = <<"tokenize", "parse", "validateNestingDepth">>

\* null, undefined, the empty string or whitespace only
IsBlank(v) ==
    \/ v.js \in {"null", "undefined"}
    \/ v.js = "string" /\ \A k \in 0..(Len(v.v) - 1) : CharAt(v.v, k) \in Whitespace

\* C7: parseFilter returns null for a null, undefined, empty or blank
\* filter string, without tokenizing, parsing or reading the schema and
\* without throwing; for every other input it returns a non-null filter
\* or throws.
C7_BlankReturnsNull ==
    /\ (IsBlank(filterString) =>
          /\ pc \in {"parseFilter", "done"}
          /\ ran = <<>> /\ tokens = <<>> /\ error = ""
          /\ (pc = "done" => result = JsNull))
    /\ (~IsBlank(filterString) =>
          /\ (pc = "done" => result \notin {JsNull, JsUndefined} /\ Len(ran) = 4)
          /\ (pc # "parseFilter" => Len(ran) >= 1))

C7_Witness ==
    /\ pc = "done"
    /\ filterString = JsString("   ")
    /\ result = JsNull
    /\ ran = <<>>

\* the tokenizer has returned its token list
Tokenized == pc = "parse"

FilterToken(p, o, v) == Token("FILTER", [property |-> p, operator |-> o, value |-> v])

\* C8: the letters and / or inside a longer property name or unquoted
\* value never yield an AND or OR token and never cut the triple short:
\* the input tokenizes to one FILTER token with the full property and
\* value.
C8_KeywordsAreWholeWords ==
    \A p \in KeywordProperties, v \in KeywordValues :
        filterString = JsString(p \o ":equals:" \o v)
            => /\ pc # "error"
               /\ \A k \in 1..Len(tokens) : tokens[k].type \notin Connectives
               /\ (Tokenized => tokens = <<FilterToken(p, "equals", v), EofToken>>)

\* C9: every capitalisation of AND and of OR standing as a word between
\* two triples yields the AND / OR token, as the upper-case spelling does.
C9_KeywordsAnyCase ==
    \A kw \in AndSpellings \cup OrSpellings :
        filterString = JsString("Name:equals:a " \o kw \o " Status:equals:b")
            => /\ pc # "error"
               /\ (Tokenized =>
                      tokens = <<FilterToken("Name", "equals", "a"),
                                 IF kw \in AndSpellings THEN Token("AND", "AND")
                                 ELSE Token("OR", "OR"),
                                 FilterToken("Status", "equals", "b"),
                                 EofToken>>)

\* the input is Name:contains: followed by a span in quotes q that holds
\* no q
IsQuotedInput(s, q) ==
    LET prefix == "Name:contains:" \o q
    IN  /\ Len(s) >= Len(prefix) + 1
        /\ StartsWith(s, prefix)
        /\ CharAt(s, Len(s) - 1) = q
        /\ \A k \in Len(prefix)..(Len(s) - 2) : CharAt(s, k) # q

\* the content X of the span
QuotedSpan(s) == SubSeq(s, Len("Name:contains:") + 2, Len(s) - 1)

\* C10 as stated: for any content X without the quote character,
\* P:o:"X" and P:o:'X' tokenize to exactly one FILTER token, then EOF,
\* whose value is X.
C10_Original ==
    \A q \in QuoteChars :
        IsQuotedInput(filterString.v, q)
            => /\ pc # "error"
               /\ (Tokenized =>
                      tokens = <<FilterToken("Name", "contains", QuotedSpan(filterString.v)),
                                 EofToken>>)

\* C10, amended: for any non-empty content X without the quote character
\* and not ending in a backslash, P:o:"X" and P:o:'X' (P and o plain
\* parts such as Name and contains) tokenize to exactly one FILTER token,
\* then EOF, whose value is X with its leading and trailing whitespace
\* trimmed; whitespace, colons, parentheses and AND/OR inside X are kept.
C10_QuotedSpan ==
    \A q \in QuoteChars :
        LET x == QuotedSpan(filterString.v)
        IN  (/\ IsQuotedInput(filterString.v, q)
             /\ x # ""
             /\ CharAt(x, Len(x) - 1) # "\\")
                => /\ pc # "error"
                   /\ (Tokenized =>
                          tokens = <<FilterToken("Name", "contains", Trim(x)), EofToken>>)

C10_Witness ==
    /\ Tokenized
    /\ filterString = JsString(QuotedInput("'", " AND"))
    /\ tokens = <<FilterToken("Name", "contains", "AND"), EofToken>>

\* the input is Date:after: followed by a value, with a colon in it, of
\* digits, letters that spell no keyword, hyphens and colons
IsColonInput(s) ==
    LET prefix == "Date:after:"
    IN  /\ StartsWith(s, prefix)
        /\ Contains(Slice(s, Len(prefix)), ":")
        /\ \A k \in Len(prefix)..(Len(s) - 1) :
               \/ IsDigit(CharAt(s, k))
               \/ CharAt(s, k) \in {":", "-", "T", "Z", "x"}

ColonValue(s) == Slice(s, Len("Date:after:"))

\* C11: only the first two unquoted colons of a triple separate: a text
\* p:o:v whose value v holds further colons (and no whitespace,
\* parenthesis, quote or keyword) tokenizes to exactly one FILTER token,
\* then EOF, of property p, operator o and value v, every colon of v in
\* its place.
C11_LaterColonsKept ==
    IsColonInput(filterString.v)
        => /\ pc # "error"
           /\ (Tokenized =>
                  tokens = <<FilterToken("Date", "after", ColonValue(filterString.v)),
                             EofToken>>)

C11_Witness ==
    /\ Tokenized
    /\ filterString = JsString("Date:after::2025:")
    /\ tokens = <<FilterToken("Date", "after", ":2025:"), EofToken>>

\* astToNotionFilter has returned or thrown
Converted == pc \in {"done", "error"} /\ Len(ran) > 0 /\ ran[Len(ran)] = "astToNotionFilter"

IsLeaf == ast.type = "filter"

IsSchemaKey(schema, property) == \E k \in 1..Len(schema) : schema[k].name = property

TypeOf(schema, property) ==
    (CHOOSE e \in {schema[k] : k \in 1..Len(schema)} : e.name = property).type

NotFoundError(schema, property) ==
    "Property \"" \o property \o "\" not found in database schema. Available properties: "
    \o Join(SchemaKeys(schema), ", ")

InvalidOperatorError(property, operator, type) ==
    "Operator \"" \o operator \o "\" is not valid for property \"" \o property
    \o "\" (type: " \o type \o "). Valid operators: " \o Join(VALID_OPERATORS[type], ", ")

\* C12: a leaf whose property is no pseudo-property is validated against
\* the schema: a name that is no key of the schema fails with the
\* not-found error listing the schema names; a key of a type of the
\* operator table fails with the invalid-operator error exactly when the
\* operator is not in the row of its type.
C12_SchemaValidation ==
    (Converted /\ IsLeaf /\ ast.property \notin PseudoProperties)
        => /\ ~IsSchemaKey(propertySchema, ast.property)
                => error = NotFoundError(propertySchema, ast.property)
           /\ (/\ IsSchemaKey(propertySchema, ast.property)
               /\ TypeOf(propertySchema, ast.property) \in DOMAIN VALID_OPERATORS)
                => LET type == TypeOf(propertySchema, ast.property)
                   IN  IF Includes(VALID_OPERATORS[type], ast.operator)
                       THEN error # InvalidOperatorError(ast.property, ast.operator, type)
                       ELSE error = InvalidOperatorError(ast.property, ast.operator, type)

\* the same, the names inherited from Object.prototype left aside
C12_OwnNames ==
    ast.property \notin ObjectPrototypeKeys \cup {"__proto__"} => C12_SchemaValidation

\* the operators that take no literal
RelativeDateOperators ==
    {"past_week", "past_month", "past_year", "next_week", "next_month", "next_year",
     "this_week"}

\* the value under the operator key of a timestamp or date condition
ConditionValue(operator, value) ==
    IF operator \in {"is_empty", "is_not_empty"} THEN JsBoolean(TRUE)
    ELSE IF operator \in RelativeDateOperators THEN JsEmptyObject
    ELSE JsString(value)

IsTimestampLeaf == IsLeaf /\ ast.property \in {"created_time", "last_edited_time"}

\* C13: a leaf on created_time or last_edited_time compiles the same for
\* every schema (empty, without the name, or giving the name another
\* type): to {timestamp: name, [name]: {[operator]: value}} when the
\* operator is one of the 14 timestamp operators, and otherwise to an
\* error naming the property and listing the valid operators.
C13_TimestampBypassesSchema ==
    (Converted /\ IsTimestampLeaf)
        => /\ \A schema \in ConvertSchemas : astToNotionFilter(ast, schema) = Completion
           /\ IF Includes(DateOperators, ast.operator)
              THEN /\ pc = "done"
                   /\ result = ("timestamp" :> ast.property) @@
                               (ast.property :>
                                   (ast.operator :> ConditionValue(ast.operator, ast.value)))
              ELSE error = "Operator \"" \o ast.operator
                           \o "\" is not valid for timestamp property \"" \o ast.property
                           \o "\". Valid operators: " \o Join(DateOperators, ", ")

C13_Witness ==
    /\ pc = "done"
    /\ propertySchema = ShadowSchema
    /\ ast = [type |-> "filter", property |-> "created_time", operator |-> "after",
              value |-> "x"]
    /\ result = ("timestamp" :> "created_time") @@
                ("created_time" :> ("after" :> JsString("x")))

IsIdLeaf == IsLeaf /\ ast.property = "id"

\* the literal of an id, people or relation condition as the code rewrites it
IdValue(value) == JsString(normalizeNotionId(value))

\* C14: a leaf on the literal property id never consults the schema, even
\* one that declares a property named id: it compiles to
\* {property: 'id', id: {[operator]: value}} exactly when the operator is
\* equals, does_not_equal or greater_than, and throws for every other
\* operator (is_empty and contains among them) an error that names
\* property "id" and lists those three operators.
C14_IdBypassesSchema ==
    (Converted /\ IsIdLeaf)
        => /\ \A schema \in ConvertSchemas : astToNotionFilter(ast, schema) = Completion
           /\ IF ast.operator \in {"equals", "does_not_equal", "greater_than"}
              THEN /\ pc = "done"
                   /\ result = ("property" :> "id") @@
                               ("id" :> (ast.operator :> IdValue(ast.value)))
              ELSE /\ pc = "error"
                   /\ error = "Operator \"" \o ast.operator
                              \o "\" is not valid for property \"id\". Valid operators: "
                              \o "equals, does_not_equal, greater_than"

C14_Witness ==
    /\ pc = "error"
    /\ propertySchema = ShadowSchema
    /\ ast = [type |-> "filter", property |-> "id", operator |-> "is_empty",
              value |-> "true"]
    /\ error = "Operator \"is_empty\" is not valid for property \"id\". Valid operators: "
               \o "equals, does_not_equal, greater_than"

\* the leaf is on a property of the schema, of a type whose row of the
\* operator table holds the operator of the leaf
IsValidPropertyLeaf ==
    /\ IsLeaf
    /\ ast.property \notin PseudoProperties
    /\ IsSchemaKey(propertySchema, ast.property)
    /\ TypeOf(propertySchema, ast.property) \in DOMAIN VALID_OPERATORS
    /\ Includes(VALID_OPERATORS[TypeOf(propertySchema, ast.property)], ast.operator)

LeafType == TypeOf(propertySchema, ast.property)

\* the compiled condition of a leaf on a property of the schema
PropertyFilter(value) ==
    ("property" :> ast.property) @@ (LeafType :> (ast.operator :> value))

\* C15: the operator category is decided before the property type: on
\* every property type and timestamp pseudo-property that permits them,
\* is_empty and is_not_empty compile to the boolean true and the seven
\* relative-date operators to the empty object, whatever the literal is;
\* a non-numeric literal on a number property raises no value error.
C15_OperatorBeforeType ==
    (/\ Converted
     /\ IsValidPropertyLeaf \/ (IsTimestampLeaf /\ Includes(DateOperators, ast.operator))
     /\ ast.operator \in {"is_empty", "is_not_empty"} \cup RelativeDateOperators)
        => LET value == IF ast.operator \in RelativeDateOperators
                        THEN JsEmptyObject ELSE JsBoolean(TRUE)
           IN  /\ pc = "done"
               /\ result = IF IsTimestampLeaf
                           THEN ("timestamp" :> ast.property) @@
                                (ast.property :> (ast.operator :> value))
                           ELSE PropertyFilter(value)

C15_Witness ==
    /\ pc = "done"
    /\ ast = [type |-> "filter", property |-> "Priority", operator |-> "is_empty",
              value |-> "abc"]
    /\ result = ("property" :> "Priority") @@ ("number" :> ("is_empty" :> JsBoolean(TRUE)))

\* the literal is an optional sign and decimal digits
DenotesNumber(value) ==
    LET digits == IF value # "" /\ CharAt(value, 0) \in {"-", "+"} THEN Slice(value, 1)
                  ELSE value
    IN  /\ digits # ""
        /\ \A k \in 0..(Len(digits) - 1) : IsDigit(CharAt(digits, k))

NumericValue(value) ==
    IF CharAt(value, 0) = "-" THEN 0 - DecimalValue(Slice(value, 1))
    ELSE IF CharAt(value, 0) = "+" THEN DecimalValue(Slice(value, 1))
    ELSE DecimalValue(value)

IsValueLeaf == IsValidPropertyLeaf /\ ~Includes(EMPTY_VALUE_OPERATORS, ast.operator)

\* C16: on a number property, with an operator that takes a literal, a
\* literal that denotes a number compiles to that number, and every other
\* literal, the empty or blank one included, is rejected with an error
\* containing "Invalid number value"; none is coerced to a number.
C16_NumberOrError ==
    (Converted /\ IsValueLeaf /\ LeafType = "number")
        => IF DenotesNumber(ast.value)
           THEN pc = "done" /\ result = PropertyFilter(JsNumber(NumericValue(ast.value)))
           ELSE pc = "error" /\ Contains(error, "Invalid number value")

\* C17: on a checkbox property the literal true compiles to the boolean
\* true, the literal false to the boolean false, and every other literal
\* fails with an error containing: Checkbox value must be "true" or "false";
\* the condition never carries a string.
C17_CheckboxBoolean ==
    (Converted /\ IsValueLeaf /\ LeafType = "checkbox")
        => IF ast.value \in {"true", "false"}
           THEN pc = "done" /\ result = PropertyFilter(JsBoolean(ast.value = "true"))
           ELSE /\ pc = "error"
                /\ Contains(error, "Checkbox value must be \"true\" or \"false\"")

C17_Witness ==
    /\ pc = "error"
    /\ ast = [type |-> "filter", property |-> "Done", operator |-> "equals",
              value |-> "True"]
    /\ error = "Checkbox value must be \"true\" or \"false\", got: \"True\""

HexDigits == "0123456789abcdefABCDEF"

IsHexDigit(c) == \E k \in 0..(Len(HexDigits) - 1) : CharAt(HexDigits, k) = c

\* the literal without its non-alphanumeric characters
RECURSIVE Stripped(_)
Stripped(value) ==
    IF value = "" THEN ""
    ELSE (IF IsAlphanumeric(CharAt(value, 0)) THEN CharAt(value, 0) ELSE "")
         \o Stripped(Slice(value, 1))

IsHex32(value) ==
    LET stripped == Stripped(value)
    IN  /\ Len(stripped) = 32
        /\ \A k \in 0..31 : IsHexDigit(CharAt(stripped, k))

\* the 8-4-4-4-12 form of 32 characters
Dashed(c) ==
    SubSeq(c, 1, 8) \o "-" \o SubSeq(c, 9, 12) \o "-" \o SubSeq(c, 13, 16) \o "-"
    \o SubSeq(c, 17, 20) \o "-" \o SubSeq(c, 21, 32)

\* the leaf is a people, relation or id condition that takes a literal
IsIdValueLeaf ==
    \/ IsValueLeaf /\ LeafType \in {"people", "relation"}
    \/ IsIdLeaf /\ Includes(ID_OPERATORS, ast.operator)

\* the literal the compiled condition holds
WrittenValue ==
    IF IsIdLeaf THEN result["id"][ast.operator] ELSE result[LeafType][ast.operator]

\* C18: for people, relation and id conditions the literal is rewritten to
\* the dashed 8-4-4-4-12 form exactly when it is 32 hexadecimal characters
\* once its non-alphanumeric characters are removed; every other literal
\* (31 or 33 characters, 32 alphanumeric characters not all hexadecimal)
\* is passed through unchanged.
C18_HexIdsRewritten ==
    (Converted /\ IsIdValueLeaf)
        => /\ pc = "done"
           /\ WrittenValue = IF IsHex32(ast.value)
                             THEN JsString(Dashed(Cleaned(ast.value)))
                             ELSE JsString(ast.value)

\* the compiled object has the shape of the tree, level by level
RECURSIVE ShapePreserved(_, _, _)
ShapePreserved(node, compiled, schema) ==
    IF IsConnective(node)
    THEN /\ DOMAIN compiled = {node.type}
         /\ Len(compiled[node.type]) = Len(node.filters)
         /\ \A k \in 1..Len(node.filters) :
                ShapePreserved(node.filters[k], compiled[node.type][k], schema)
    ELSE /\ DOMAIN compiled \cap {"and", "or"} = {}
         /\ compiled = convertSingleFilter(node, schema).value

\* every leaf of the tree compiles
RECURSIVE Compiles(_, _)
Compiles(node, schema) ==
    IF IsConnective(node)
    THEN \A k \in 1..Len(node.filters) : Compiles(node.filters[k], schema)
    ELSE convertSingleFilter(node, schema).err = ""

\* C19: astToNotionFilter preserves the shape of the tree: where every
\* leaf compiles, an and / or node of children c1..cn compiles to an
\* object of the single key and / or whose array has exactly n elements,
\* the i-th the compilation of ci, at every level, and a leaf never
\* compiles to an object with an and or or key; where a leaf fails, the
\* call throws.
C19_ShapePreserved ==
    Converted
        => IF Compiles(ast, propertySchema)
           THEN pc = "done" /\ ShapePreserved(ast, result, propertySchema)
           ELSE pc = "error"

C19_Witness ==
    /\ pc = "done"
    /\ propertySchema = ConvertSchema
    /\ ast.type = "and"
    /\ Len(ast.filters) = 2
    /\ ast.filters[1].type = "or"
    /\ Len(ast.filters[1].filters) = 2
    /\ ast.filters[1].filters[1] # ast.filters[1].filters[2]
    /\ DOMAIN result = {"and"}
    /\ DOMAIN result["and"][1] = {"or"}
    /\ result["and"][2] = convertSingleFilter(ast.filters[2], propertySchema).value

\* the running call has returned or thrown
Completed == pc \in {"done", "error"}

ParseRan == Len(ran) > 0 /\ ran[Len(ran)] = "parse"

\* the number of ( still open after the first n tokens, a ) closing the
\* nearest open ( if there is one
RECURSIVE OpenAfter(_, _)
OpenAfter(toks, n) ==
    IF n = 0 THEN 0
    ELSE LET before == OpenAfter(toks, n - 1)
         IN  IF toks[n].type = "LPAREN" THEN before + 1
             ELSE IF toks[n].type = "RPAREN" /\ before > 0 THEN before - 1
             ELSE before

\* some ( of the list is never matched by a )
HasUnclosedParen(toks) == OpenAfter(toks, Len(toks)) > 0

\* the list has no fault but parentheses left open: it starts with a
\* triple or a (, a triple or a ) is followed by AND, OR, ) or the end,
\* AND, OR and ( are followed by a triple or a (, and no ) is unmatched
OnlyUnclosed(toks) ==
    /\ HasUnclosedParen(toks)
    /\ toks[1].type \in {"FILTER", "LPAREN"}
    /\ \A k \in 1..(Len(toks) - 1) :
           /\ toks[k].type \in {"FILTER", "RPAREN"}
                => toks[k + 1].type \in {"AND", "OR", "RPAREN", "EOF"}
           /\ toks[k].type \in {"AND", "OR", "LPAREN"}
                => toks[k + 1].type \in {"FILTER", "LPAREN"}
           /\ toks[k].type = "RPAREN" => OpenAfter(toks, k - 1) > 0

\* C21 as stated: every token list with a ( that is never matched by a )
\* makes parse fail with an error containing "Expected closing parenthesis".
C21_Original ==
    (ParseRan /\ HasUnclosedParen(tokens))
        => pc = "error" /\ Contains(error, "Expected closing parenthesis")

\* C21, amended: every token list with a ( that is never matched by a )
\* makes parse fail, with the first error the parser meets: "Expected
\* closing parenthesis" when the list has no other fault (as ( A EOF and
\* ( ( A ) EOF), and otherwise that error or one starting "Unexpected
\* token" (as ( A AND EOF, which fails on the EOF after AND).
C21_UnclosedParenFails ==
    (ParseRan /\ HasUnclosedParen(tokens))
        => /\ pc = "error"
           /\ \/ error = "Expected closing parenthesis"
              \/ StartsWith(error, "Unexpected token")
           /\ OnlyUnclosed(tokens) => error = "Expected closing parenthesis"

C21_Witness ==
    /\ ParseRan
    /\ TypesOf(tokens) = <<"LPAREN", "LPAREN", "FILTER", "RPAREN", "EOF">>
    /\ OnlyUnclosed(tokens)
    /\ error = "Expected closing parenthesis"

C23_CombineFilters ==
    [][pc = "combineFilters" =>
        LET qf == queryFilter
            pf == parsedFilter
            both == qf # JsNull /\ pf # JsNull
            isAnd == "and" \in DOMAIN pf
        IN  /\ parsedFilter' = pf
            /\ (both /\ isAnd) =>
                   /\ pc' = "fetchPages"
                   /\ DOMAIN combinedFilter' = {"and"}
                   /\ Len(combinedFilter'["and"]) = Len(pf["and"]) + 1
                   /\ \A k \in 1..Len(pf["and"]) : combinedFilter'["and"][k] = pf["and"][k]
                   /\ combinedFilter'["and"][Len(pf["and"]) + 1] = qf
                   /\ getFilterDepth(combinedFilter') = getFilterDepth(pf)
            /\ (both /\ ~isAnd /\ getFilterDepth(pf) < 2) =>
                   /\ pc' = "fetchPages"
                   /\ combinedFilter' = ("and" :> <<pf, qf>>)
            /\ (both /\ ~isAnd /\ getFilterDepth(pf) >= 2) =>
                   /\ pc' = "error"
                   /\ Contains(error', "exceeds Notion filter nesting limits")
            /\ (qf = JsNull /\ pf # JsNull) => pc' = "fetchPages" /\ combinedFilter' = pf
            /\ pf = JsNull => pc' = "fetchPages" /\ combinedFilter' = qf
    ]_vars

C23_Witness ==
    /\ pc = "fetchPages"
    /\ queryFilter # JsNull
    /\ parsedFilter = ("and" :> <<"or" :> <<"and" :> <<StatusLeaf>>, PriorityLeaf>>, PriorityLeaf>>)
    /\ combinedFilter = ("and" :> <<"or" :> <<"and" :> <<StatusLeaf>>, PriorityLeaf>>,
                                    PriorityLeaf, queryFilter>>)
    /\ getFilterDepth(combinedFilter) = 3

\* the first n tokens break no rule of the grammar: they start with a
\* triple or a (, a triple or a ) is followed by AND, OR or ), AND, OR and (
\* are followed by a triple or a (, and every ) closes a (
SoundPrefix(toks, n) ==
    /\ n >= 1 => toks[1].type \in {"FILTER", "LPAREN"}
    /\ \A k \in 1..n :
           /\ toks[k].type # "EOF"
           /\ toks[k].type = "RPAREN" => OpenAfter(toks, k - 1) > 0
           /\ k < n =>
                  /\ toks[k].type \in {"FILTER", "RPAREN"}
                       => toks[k + 1].type \in {"AND", "OR", "RPAREN"}
                  /\ toks[k].type \in {"AND", "OR", "LPAREN"}
                       => toks[k + 1].type \in {"FILTER", "LPAREN"}

\* the first n tokens are a complete expression
CompleteExpression(toks, n) ==
    /\ n >= 1
    /\ SoundPrefix(toks, n)
    /\ toks[n].type \in {"FILTER", "RPAREN"}
    /\ OpenAfter(toks, n) = 0

\* a primary is expected at token k: at the start, after a (, AND or OR
PrimaryExpected(toks, k) ==
    /\ SoundPrefix(toks, k - 1)
    /\ k > 1 => toks[k - 1].type \in {"LPAREN", "AND", "OR"}

\* C24: parse returns an AST only with its cursor on the EOF token, every
\* token before it consumed.  A complete expression followed by a ), a
\* second triple or a ( makes it throw "Unexpected token after expression: "
\* and the JSON of that token; a primary expected where the token is AND,
\* OR, ) or EOF makes it throw "Unexpected token: " and the JSON of that
\* token.
C24_UnexpectedToken ==
    ParseRan =>
        /\ Parsed => /\ pc # "error"
                     /\ parse(tokens).position = Len(tokens) - 1
                     /\ CompleteExpression(tokens, Len(tokens) - 1)
        /\ \A n \in 1..(Len(tokens) - 1) :
               (/\ CompleteExpression(tokens, n)
                /\ tokens[n + 1].type \in {"RPAREN", "FILTER", "LPAREN"})
                   => /\ pc = "error"
                      /\ ~Parsed
                      /\ Contains(error, "Unexpected token after expression")
                      /\ error = "Unexpected token after expression: "
                                     \o JsonToken(tokens[n + 1])
        /\ \A k \in 1..Len(tokens) :
               (/\ PrimaryExpected(tokens, k)
                /\ tokens[k].type \in {"AND", "OR", "RPAREN", "EOF"})
                   => /\ pc = "error"
                      /\ ~Parsed
                      /\ Contains(error, "Unexpected token")
                      /\ error = "Unexpected token: " \o JsonToken(tokens[k])

C24_Witness ==
    /\ ParseRan
    /\ TypesOf(tokens) = <<"LPAREN", "FILTER", "RPAREN", "LPAREN", "FILTER", "RPAREN", "EOF">>
    /\ CompleteExpression(tokens, 3)
    /\ error = "Unexpected token after expression: {\"type\":\"LPAREN\",\"value\":\"(\"}"

\* every and / or node of the tree has at least two children
RECURSIVE AtLeastTwoChildren(_)
AtLeastTwoChildren(node) ==
    IsConnective(node) =>
        /\ Len(node.filters) >= 2
        /\ \A k \in 1..Len(node.filters) : AtLeastTwoChildren(node.filters[k])

\* the tokens of ( E ) for the tokens of E
Parenthesised(toks) ==
    <<Token("LPAREN", "(")>> \o SubSeq(toks, 1, Len(toks) - 1)
        \o <<Token("RPAREN", ")"), EofToken>>

\* C25: every and / or node of an AST returned by parse has at least two
\* children, and parentheses add no node: for every expression E that
\* parses, ( E ) and ( ( E ) ) parse to the AST of E.
C25_NoRedundantNode ==
    (ParseRan /\ Parsed) =>
        /\ AtLeastTwoChildren(ast)
        /\ parse(Parenthesised(tokens)).err = ""
        /\ parse(Parenthesised(tokens)).node = ast
        /\ parse(Parenthesised(Parenthesised(tokens))).err = ""
        /\ parse(Parenthesised(Parenthesised(tokens))).node = ast

C25_Witness ==
    /\ ParseRan
    /\ TypesOf(tokens) = <<"LPAREN", "FILTER", "OR", "FILTER", "RPAREN", "EOF">>
    /\ ast = [type |-> "or", filters |-> <<FilterNode(LeafTriple(1)), FilterNode(LeafTriple(2))>>]
    /\ ast = parse(TokensOf(<<"F", "OR", "F">>)).node

\* C26: a leaf on a schema property of type url, email or phone_number
\* with the operator equals or contains compiles to
\* {property, [type]: {[operator]: value}}, the literal passed through
\* unchanged as the value.
C26_UrlEmailPhoneCompile ==
    (/\ Converted
     /\ IsLeaf
     /\ ast.property \notin PseudoProperties
     /\ IsSchemaKey(propertySchema, ast.property)
     /\ LeafType \in {"url", "email", "phone_number"}
     /\ ast.operator \in {"equals", "contains"})
        => /\ pc = "done"
           /\ result = PropertyFilter(JsString(ast.value))

\* C27: a parenthesised group is merged only as the left operand of the
\* same connective: (A op B) op C parses to the flat node op[A, B, C], the
\* parse of A op B op C, of one connective layer; A op (B op C) parses to
\* op[A, op[B, C]], of two layers; for op AND and for op OR.
C27_LeftOnlyFlattening ==
    \A op \in Connectives :
        LET A == FilterNode(LeafTriple(1))
            B == FilterNode(LeafTriple(2))
            C == FilterNode(LeafTriple(3))
            type == NodeType(op)
        IN  /\ (Parsed /\ TypesOf(tokens)
                    = <<"LPAREN", "FILTER", op, "FILTER", "RPAREN", op, "FILTER", "EOF">>)
                   => /\ ast = [type |-> type, filters |-> <<A, B, C>>]
                      /\ ast = parse(TokensOf(<<"F", op, "F", op, "F">>)).node
                      /\ Layers(ast) = 1
            /\ (Parsed /\ TypesOf(tokens)
                    = <<"FILTER", op, "LPAREN", "FILTER", op, "FILTER", "RPAREN", "EOF">>)
                   => /\ ast = [type |-> type,
                                filters |-> <<A, [type |-> type, filters |-> <<B, C>>]>>]
                      /\ ast # parse(TokensOf(<<"F", op, "F", op, "F">>)).node
                      /\ Layers(ast) = 2

C27_Witness ==
    /\ Parsed
    /\ filterString = JsString("A:equals:1 OR (B:equals:2 OR C:equals:3)")
    /\ Len(ast.filters) = 2
    /\ ast.filters[2].type = "or"
    /\ Layers(ast) = 2

C29_Original ==
    \A q \in QuoteChars :
        /\ \A b \in UnclosedBefore, v \in UnclosedValueStart, t \in UnclosedTail(q) :
               filterString.v = UnclosedValue(b, v, q, t)
                   => /\ pc # "error"
                      /\ (Tokenized /\ v \o t # "") =>
                             /\ Len(tokens) = b.tokens + 2
                             /\ tokens[b.tokens + 1]
                                    = FilterToken("Name", "contains", Trim(v \o t))
        /\ \A b \in UnclosedBefore, n \in UnclosedName(q), t \in UnclosedNameTail :
               filterString.v = b.text \o n \o t => pc # "error"

\* C29, amended: a quote that opens in a triple and is never closed has no
\* error of its own: the rest of the input, spaces, parentheses, colons,
\* AND / OR words, other quote characters and escaped quotes included, is
\* absorbed into the part being scanned, the quote character itself
\* dropped.  Opened in the value, with a value so formed that is not empty,
\* it makes a single FILTER token of the trimmed value followed by EOF;
\* opened in the property or the operator, or with nothing before and after
\* it in the value, fewer than three parts result and tokenize throws
\* Unexpected character at the position where the triple began.
C29_UnclosedQuoteAbsorbs ==
    \A q \in QuoteChars :
        /\ \A b \in UnclosedBefore, v \in UnclosedValueStart, t \in UnclosedTail(q) :
               filterString.v = UnclosedValue(b, v, q, t)
                   => IF v \o t # ""
                      THEN /\ pc # "error"
                           /\ Len(tokens) <= b.tokens + 2
                           /\ Tokenized =>
                                  /\ Len(tokens) = b.tokens + 2
                                  /\ tokens[b.tokens + 1]
                                         = FilterToken("Name", "contains", Trim(v \o t))
                                  /\ tokens[b.tokens + 2] = EofToken
                                  /\ i = Len(str)
                      ELSE /\ ~Tokenized
                           /\ pc = "error" => error = UnexpectedCharacter(str, Len(b.text))
        /\ \A b \in UnclosedBefore, n \in UnclosedName(q), t \in UnclosedNameTail :
               filterString.v = b.text \o n \o t
                   => /\ ~Tokenized
                      /\ Len(tokens) <= b.tokens
                      /\ pc = "error" =>
                             error = "Unexpected character at position "
                                         \o ToString(Len(b.text)) \o ": \""
                                         \o CharAt(n, 0) \o "\""

C29_Witness ==
    /\ Tokenized
    /\ filterString = JsString("Name:contains:it's AND Status:equals:Done")
    /\ tokens = <<FilterToken("Name", "contains", "its AND Status:equals:Done"), EofToken>>

\* EOF tokens stand nowhere but at the end of the list
EofOnlyLast(toks) == \A k \in 1..Len(toks) : toks[k].type = "EOF" => k = Len(toks)

\* the list ends with its one EOF token
EndsWithOneEof(toks) ==
    /\ Len(toks) >= 1
    /\ toks[Len(toks)].type = "EOF"
    /\ EofOnlyLast(toks)

\* C30: parseFilter ends on every input by returning or throwing.  In
\* tokenize the cursor grows on every iteration that does not throw and
\* stays within the input; the token list handed to the parser ends with
\* exactly one EOF token; the parser leaves its cursor on a token of the
\* list, never past the EOF token, whether it returns or throws.
C30_Terminates ==
    /\ <>(pc \in {"done", "error"})
    /\ [](/\ EofOnlyLast(tokens)
          /\ pc = "tokenize" => i <= Len(str) /\ tokens = SelectSeq(tokens, LAMBDA t : t.type # "EOF")
          /\ (pc = "parse" \/ \E k \in 1..Len(ran) : ran[k] = "parse")
                => /\ EndsWithOneEof(tokens)
                   /\ parse(tokens).position \in 0..(Len(tokens) - 1))
    /\ [][/\ (pc = "tokenize" /\ pc' = "tokenize") => i' > i /\ i' <= Len(str)
          /\ pc \in {"done", "error"} => UNCHANGED vars]_vars

C30_Witness ==
    /\ pc = "done"
    /\ filterString = JsString("  A:equals:1   AND   B:equals:2  ")
    /\ i = Len(str)
    /\ EndsWithOneEof(tokens)
    /\ Len(tokens) = 4
    /\ parse(tokens).position = 3

====
